---- MODULE Spec2Model ----
(***************************************************************************)
(* The transactional journal of libshelf and its rollback iterator         *)
(* (libshelf/src/journal/rollback.rs).  A journal is a vector of records   *)
(* (Action(T) | Commit) mirrored into a byte writer.  A caller appends     *)
(* records, opens a RollbackIter with rollback() or rollback_last(),       *)
(* drives it with next() and executes every op that next() yields.         *)
(* T is the Datum of the journal tests: Forward | Backward.                *)
(***************************************************************************)
EXTENDS Integers, Sequences, FiniteSets, TLC

(* ---------------------------------------------------------------- bounds *)
\* The caller appends only while the journal holds fewer records than this.
MaxLen == 3
\* next() is called only while the journal holds fewer records than this.
MaxRecords == 7
\* Number of appends on which the writer reports an error.
MaxFail == 1
\* Number of times one iterator is seen returning None before it is dropped.
MaxNones == 2

(* ------------------------------------------------------------- records  *)
Datum == {"Forward", "Backward"}

Action(d) == [tag |-> "Action", data |-> d]
COMMIT == [tag |-> "Commit", data |-> "-"]
FORWARD == Action("Forward")
BACKWARD == Action("Backward")
Record == {Action(d) : d \in Datum} \cup {COMMIT}

\* Option::None of Journal::get_back / Journal::latest.
NoRecord == [tag |-> "Nothing", data |-> "-"]

\* impl Rollback for Datum.
Datum_rollback(d) == IF d = "Forward" THEN "Backward" ELSE "Forward"

\* The caller executing an op on the filesystem: Forward and Backward are
\* inverse effects on an abstract filesystem state (law L2).
Datum_finish(d, f) == IF d = "Forward" THEN f + 1 ELSE f - 1

(* -------------------------------------------------------- wire format   *)
\* One self-delimiting entry per record; Commit is a record of its own.
Serialize(r) ==
    IF r.tag = "Commit" THEN <<"C", "\n">>
    ELSE <<"A", IF r.data = "Forward" THEN "F" ELSE "B", "\n">>

RECURSIVE mk_expected(_)
mk_expected(rs) ==
    IF rs = <<>> THEN <<>> ELSE Serialize(Head(rs)) \o mk_expected(Tail(rs))

\* A reader: deserialize entry after entry until EOF; a torn or unknown
\* entry makes the log unreadable.
Unreadable == <<[tag |-> "Unreadable", data |-> "-"]>>

RECURSIVE Deserialize(_)
Deserialize(bytes) ==
    IF bytes = <<>> THEN <<>>
    ELSE IF Len(bytes) >= 2 /\ bytes[1] = "C" /\ bytes[2] = "\n"
         THEN LET rest == Deserialize(SubSeq(bytes, 3, Len(bytes)))
              IN  IF rest = Unreadable THEN Unreadable ELSE <<COMMIT>> \o rest
    ELSE IF Len(bytes) >= 3 /\ bytes[1] = "A" /\ bytes[2] \in {"F", "B"}
            /\ bytes[3] = "\n"
         THEN LET rest == Deserialize(SubSeq(bytes, 4, Len(bytes)))
                  d == IF bytes[2] = "F" THEN "Forward" ELSE "Backward"
              IN  IF rest = Unreadable THEN Unreadable ELSE <<Action(d)>> \o rest
    ELSE Unreadable

(* ------------------------------------------------------------- journal  *)
\* What the writer does with one entry: take it and flush it ("ok"), fail
\* in write before taking it ("write_err"), or take it and fail in flush
\* ("flush_err").
WriterOutcome == {"ok", "write_err", "flush_err"}

\* Journal::append: serialize, write, flush, then push.
Journal_append(recs, w, record, o) ==
    LET bytes == Serialize(record) IN
    IF o = "ok"
    THEN [ok |-> TRUE, records |-> Append(recs, record), writer |-> w \o bytes]
    ELSE [ok |-> FALSE, records |-> recs,
          writer |-> IF o = "flush_err" THEN w \o bytes ELSE w]

\* Journal::get_back: the i-th record from the end, zero-based.
Journal_get_back(recs, i) ==
    IF i < Len(recs) THEN recs[Len(recs) - i] ELSE NoRecord

\* Journal::latest.
Journal_latest(recs) == Journal_get_back(recs, 0)

(* -------------------------------------------------------- RollbackIter  *)
NoIter == [idx |-> 0, appended |-> FALSE]

\* Faulty variant: the iterator starts with its appended flag set.
RollbackIter_new_idx_appended(i) == [idx |-> i, appended |-> TRUE]

RollbackIter_new_idx(i) == [idx |-> i, appended |-> FALSE]

RollbackIter_new == RollbackIter_new_idx(0)

\* Faulty variant: rollback() starts one record back, as rollback_last() does.
Journal_rollback_skip_latest == RollbackIter_new_idx(1)

Journal_rollback == RollbackIter_new

\* Faulty variant: Some for every non-empty journal, whatever its latest record.
Journal_rollback_last_any(recs) ==
    IF Journal_latest(recs) = NoRecord THEN [some |-> FALSE, it |-> NoIter]
    ELSE [some |-> TRUE, it |-> RollbackIter_new_idx(1)]

\* Some(iterator) or None.
Journal_rollback_last(recs) ==
    IF Journal_latest(recs) = NoRecord THEN [some |-> FALSE, it |-> NoIter]
    ELSE IF Journal_latest(recs).tag = "Commit"
         THEN [some |-> TRUE, it |-> RollbackIter_new_idx(1)]
         ELSE [some |-> FALSE, it |-> NoIter]

RetNone == [kind |-> "None", data |-> "-"]
RetOk(d) == [kind |-> "Ok", data |-> d]
RetErr == [kind |-> "Err", data |-> "-"]

\* Faulty variant: the walk does not end at a Commit; the Commit is taken for
\* an Action and an inverse is yielded for it.
next_match_through_commit(self, recs) ==
    LET got == Journal_get_back(recs, self.idx) IN
    IF got.tag # "Nothing"
    THEN [early |-> FALSE, some |-> TRUE,
          record |-> Action(Datum_rollback(got.data))]
    ELSE IF ~self.appended
         THEN [early |-> TRUE, some |-> FALSE, record |-> COMMIT]
         ELSE [early |-> FALSE, some |-> FALSE, record |-> COMMIT]

\* next(), the match on get_back(idx): the early return, or the pair
\* (data, record) with data = Some(rdata) for an Action and None otherwise.
next_match(self, recs) ==
    LET got == Journal_get_back(recs, self.idx) IN
    IF got.tag = "Action"
    THEN [early |-> FALSE, some |-> TRUE,
          record |-> Action(Datum_rollback(got.data))]
    ELSE IF ~self.appended
         THEN [early |-> TRUE, some |-> FALSE, record |-> COMMIT]
         ELSE [early |-> FALSE, some |-> FALSE, record |-> COMMIT]

\* Faulty variant: an append error is swallowed and the iteration ends.
next_append_swallow(self, m, a) ==
    IF a.ok
    THEN [it |-> [idx |-> self.idx + 2, appended |-> self.appended \/ m.some],
          records |-> a.records, writer |-> a.writer,
          ret |-> IF m.some THEN RetOk(m.record.data) ELSE RetNone,
          append |-> "ok"]
    ELSE [it |-> [idx |-> self.idx + 1, appended |-> self.appended],
          records |-> a.records, writer |-> a.writer, ret |-> RetNone,
          append |-> "err"]

\* next(), from `self.idx += 1` on, `a` being what journal.append(record)
\* returned and left behind.
next_append(self, m, a) ==
    IF a.ok
    THEN [it |-> [idx |-> self.idx + 2, appended |-> self.appended \/ m.some],
          records |-> a.records, writer |-> a.writer,
          ret |-> IF m.some THEN RetOk(m.record.data) ELSE RetNone,
          append |-> "ok"]
    ELSE [it |-> [idx |-> self.idx + 1, appended |-> self.appended],
          records |-> a.records, writer |-> a.writer, ret |-> RetErr,
          append |-> "err"]

\* Faulty variant: the inverse is yielded without being appended.
RollbackIter_next_unjournalled(self, recs, w, o) ==
    LET m == next_match(self, recs) IN
    IF m.early
    THEN [it |-> self, records |-> recs, writer |-> w, ret |-> RetNone,
          append |-> "none"]
    ELSE next_append(self, m, [ok |-> TRUE, records |-> recs, writer |-> w])

\* Faulty variant: the record is pushed onto the vector without going through
\* append, so the writer never sees it.
RollbackIter_next_push(self, recs, w, o) ==
    LET m == next_match(self, recs) IN
    IF m.early
    THEN [it |-> self, records |-> recs, writer |-> w, ret |-> RetNone,
          append |-> "none"]
    ELSE next_append(self, m, [ok |-> TRUE, records |-> Append(recs, m.record),
                               writer |-> w])

\* Faulty variant: the inverse replaces the latest record instead of following it.
RollbackIter_next_overwrite(self, recs, w, o) ==
    LET m == next_match(self, recs) IN
    IF m.early
    THEN [it |-> self, records |-> recs, writer |-> w, ret |-> RetNone,
          append |-> "none"]
    ELSE next_append(self, m,
            Journal_append(SubSeq(recs, 1, Len(recs) - 1), w, m.record, o))

\* RollbackIter::next, with the writer's behaviour `o` on the append it makes.
RollbackIter_next(self, recs, w, o) ==
    LET m == next_match(self, recs) IN
    IF m.early
    THEN [it |-> self, records |-> recs, writer |-> w, ret |-> RetNone,
          append |-> "none"]
    ELSE next_append(self, m, Journal_append(recs, w, m.record, o))

(* ----------------------------------------------------------- filesystem *)
\* The deepest destination path has this many components.
MaxDepth == 3

\* A path is the sequence of its components; <<>> is the root directory.
Chain(d) == [i \in 1..d |-> "a"]
SrcPath == <<"s">>
\* A path that never exists: the target of a dangling symlink.
NoPath == <<"x">>
Path == {SrcPath} \cup {Chain(d) : d \in 1..MaxDepth}

\* Path::parent.
parent(p) == SubSeq(p, 1, Len(p) - 1)

\* File contents; "bin" is a byte string that is not valid UTF-8.
Content == {"x", "y", "bin"}

Absent == [kind |-> "absent", content |-> "-", target |-> <<>>]
DirNode == [kind |-> "dir", content |-> "-", target |-> <<>>]
FileNode(c) == [kind |-> "file", content |-> c, target |-> <<>>]
SymlinkNode(t) == [kind |-> "symlink", content |-> "-", target |-> t]
Node == {Absent, DirNode} \cup {FileNode(c) : c \in Content}
        \cup {SymlinkNode(t) : t \in {SrcPath, NoPath, Chain(1)}}

\* The entry at p, not following a symlink at p.
Lookup(S, p) ==
    IF p = <<>> THEN DirNode ELSE IF p \in DOMAIN S THEN S[p] ELSE Absent

\* A filesystem: an entry exists only inside an existing directory.
FsState ==
    {S \in [Path -> Node] :
        \A p \in Path : S[p] # Absent => Lookup(S, parent(p)) = DirNode}

\* fs::symlink_metadata(p): the kind of the entry at p, Err as "absent".
symlink_metadata(S, p) == Lookup(S, p).kind

\* fse::symlink_exists(p).
symlink_exists(S, p) == symlink_metadata(S, p) # "absent"

\* fs::read_link(p) of a symlink.
read_link(S, p) == Lookup(S, p).target

\* fs::read_to_string(p): follows symlinks; Err for anything but a file
\* holding valid UTF-8 (a chain of symlinks longer than the number of
\* paths is a loop).
RECURSIVE read_following(_, _, _)
read_following(S, p, hops) ==
    LET n == Lookup(S, p) IN
    IF n.kind = "file" /\ n.content # "bin" THEN [ok |-> TRUE, s |-> n.content]
    ELSE IF n.kind = "symlink" /\ hops > 0 THEN read_following(S, n.target, hops - 1)
    ELSE [ok |-> FALSE, s |-> "-"]

read_to_string(S, p) == read_following(S, p, Cardinality(Path))

(* ------------------------------------------------------------- resolver *)
RmOp(path, dir) == [op |-> "Rm", path |-> path, dir |-> dir]
LinkOp(src, dest) == [op |-> "Link", src |-> src, dest |-> dest]
CopyOp(src, dest, dir) == [op |-> "Copy", src |-> src, dest |-> dest, dir |-> dir]
MkdirOp(path) == [op |-> "Mkdir", path |-> path]

Res_Normal(ops) == [res |-> "Normal", why |-> "-", ops |-> ops]
Res_Overwrite(ops) == [res |-> "Overwrite", why |-> "-", ops |-> ops]
Res_Skip(why) == [res |-> "Skip", why |-> why, ops |-> <<>>]
Res_Err(why) == [res |-> "Err", why |-> why, ops |-> <<>>]

\* mkdir_parents_ops: the loop collects the missing parents deepest first,
\* rev() turns them root-first.
RECURSIVE mkdir_parents_collect(_, _)
mkdir_parents_collect(S, p) ==
    IF p = <<>> THEN <<>>
    ELSE LET par == parent(p) IN
         (IF ~symlink_exists(S, par) THEN <<MkdirOp(par)>> ELSE <<>>)
             \o mkdir_parents_collect(S, par)

Reverse(s) == [i \in 1..Len(s) |-> s[Len(s) + 1 - i]]

\* mkdir_parents_ops() without the rev().
mkdir_parents_ops_deepest_first(S, p) == mkdir_parents_collect(S, p)

mkdir_parents_ops(S, p) == Reverse(mkdir_parents_collect(S, p))

LinkAction ==
    [src : Path, dest : Path, copy : BOOLEAN, optional : BOOLEAN]

\* resolve_link() that removes dest as a file whatever it is.
resolve_link_rm_file(self, S) ==
    LET src == self.src
        dest == self.dest
        meta == symlink_metadata(S, dest)
        link_op == LinkOp(src, dest)
    IN  IF meta = "symlink" /\ read_link(S, dest) = src
        THEN Res_Skip("DestExists")
        ELSE IF meta \in {"symlink", "dir", "file"}
        THEN Res_Overwrite(<<RmOp(dest, FALSE), link_op>>)
        ELSE Res_Normal(mkdir_parents_ops(S, dest) \o <<link_op>>)

\* LinkAction::resolve_link.
resolve_link(self, S) ==
    LET src == self.src
        dest == self.dest
        meta == symlink_metadata(S, dest)
        link_op == LinkOp(src, dest)
    IN  IF meta = "symlink" /\ read_link(S, dest) = src
        THEN Res_Skip("DestExists")
        ELSE IF meta \in {"symlink", "dir", "file"}
        THEN Res_Overwrite(<<RmOp(dest, meta = "dir"), link_op>>)
        ELSE Res_Normal(mkdir_parents_ops(S, dest) \o <<link_op>>)

\* LinkAction::resolve_copy.
resolve_copy(self, S) ==
    LET src == self.src
        dest == self.dest
        src_is_dir == symlink_metadata(S, src) = "dir"
        meta == symlink_metadata(S, dest)
        src_contents == read_to_string(S, src)
        dest_contents == read_to_string(S, dest)
        content_same == /\ src_contents.ok
                        /\ dest_contents.ok
                        /\ src_contents.s = dest_contents.s
        copy_op == CopyOp(src, dest, src_is_dir)
    IN  IF meta = "file" /\ content_same
        THEN Res_Skip("DestExists")
        ELSE IF meta \in {"file", "dir", "symlink"}
        THEN Res_Overwrite(<<RmOp(dest, meta = "dir"), copy_op>>)
        ELSE Res_Normal(mkdir_parents_ops(S, dest) \o <<copy_op>>)

\* resolve() with the existence of src looked at before src and dest are
\* compared.
LinkAction_resolve_src_first(self, S) ==
    IF ~symlink_exists(S, self.src)
    THEN IF self.optional THEN Res_Skip("OptMissing") ELSE Res_Err("SrcMissing")
    ELSE IF self.src = self.dest THEN Res_Skip("SameSrcDest")
    ELSE IF self.copy THEN resolve_copy(self, S)
    ELSE resolve_link(self, S)

\* resolve() that looks for src only when it links.
LinkAction_resolve_copy_unchecked(self, S) ==
    IF self.src = self.dest THEN Res_Skip("SameSrcDest")
    ELSE IF self.copy THEN resolve_copy(self, S)
    ELSE IF ~symlink_exists(S, self.src)
    THEN IF self.optional THEN Res_Skip("OptMissing") ELSE Res_Err("SrcMissing")
    ELSE resolve_link(self, S)

\* LinkAction::resolve.
LinkAction_resolve(self, S) ==
    IF self.src = self.dest THEN Res_Skip("SameSrcDest")
    ELSE IF ~symlink_exists(S, self.src)
    THEN IF self.optional THEN Res_Skip("OptMissing") ELSE Res_Err("SrcMissing")
    ELSE IF self.copy THEN resolve_copy(self, S)
    ELSE resolve_link(self, S)

\* MkdirAction { path, parents }.
MkdirAction == [path : Path, parents : BOOLEAN]

\* resolve() that makes the parents whatever the flag is.
MkdirAction_resolve_always_parents(self, S) ==
    LET path == self.path
        meta == symlink_metadata(S, path)
    IN  IF meta = "dir" THEN Res_Skip("DestExists")
        ELSE IF meta \in {"file", "symlink"} THEN Res_Overwrite(<<RmOp(path, FALSE)>>)
        ELSE Res_Normal(mkdir_parents_ops(S, path) \o <<MkdirOp(path)>>)

\* MkdirAction::resolve.
MkdirAction_resolve(self, S) ==
    LET path == self.path
        meta == symlink_metadata(S, path)
        overwrite == meta \in {"file", "symlink"}
        is_dir == FALSE
    IN  IF meta = "dir" THEN Res_Skip("DestExists")
        ELSE IF overwrite THEN Res_Overwrite(<<RmOp(path, is_dir)>>)
        ELSE Res_Normal((IF self.parents THEN mkdir_parents_ops(S, path) ELSE <<>>)
                            \o <<MkdirOp(path)>>)

CreateOp(path) == [op |-> "Create", path |-> path]
WriteOp(path, contents) == [op |-> "Write", path |-> path, contents |-> contents]

\* A String holds valid UTF-8 only; into_bytes gives its bytes.
String == Content \ {"bin"}
into_bytes(str) == str

\* Resolution::Done(output): the ops, and whether an Overwrite notice was
\* pushed.
Res_Done(ops, warn) ==
    [res |-> "Done", why |-> IF warn THEN "Overwrite" ELSE "-", ops |-> ops]

\* link::mkparents_op(dest): one Mkdir for the parent of dest when it is
\* missing, as a list of at most one op.
mkparents_op(S, dest) ==
    IF ~symlink_exists(S, parent(dest)) THEN <<MkdirOp(parent(dest))>> ELSE <<>>

\* WriteAction { dest, contents }.
WriteAction == [dest : Path, contents : String]

\* resolve() that skips a file already holding the contents.
WriteAction_resolve_skip_same(self, S) ==
    LET dest == self.dest
        meta == symlink_metadata(S, dest)
        first == IF meta = "file" THEN <<RmOp(dest, FALSE)>>
                 ELSE IF meta \in {"dir", "symlink"} THEN <<RmOp(dest, meta = "dir")>>
                 ELSE <<CreateOp(dest)>>
    IN  IF meta = "file" /\ Lookup(S, dest).content = self.contents
        THEN Res_Skip("DestExists")
        ELSE Res_Done(first \o mkparents_op(S, dest)
                          \o <<WriteOp(dest, into_bytes(self.contents))>>,
                      meta \in {"file", "dir", "symlink"})

\* WriteAction::resolve.
WriteAction_resolve(self, S) ==
    LET dest == self.dest
        meta == symlink_metadata(S, dest)
        first == IF meta = "file" THEN <<RmOp(dest, FALSE)>>
                 ELSE IF meta \in {"dir", "symlink"} THEN <<RmOp(dest, meta = "dir")>>
                 ELSE <<CreateOp(dest)>>
    IN  Res_Done(first \o mkparents_op(S, dest)
                     \o <<WriteOp(dest, into_bytes(self.contents))>>,
                 meta \in {"file", "dir", "symlink"})

(* ------------------------------------------------------------------ ops *)
\* todo!(): the call panics and gives no op.
Panic == [op |-> "Panic"]

MkdirUndoOp(path) == [op |-> "MkdirUndo", path |-> path]
\* saved: the entries that the Rm moved to the backup directory.
RmUndoOp(path, saved) == [op |-> "RmUndo", path |-> path, saved |-> saved]

Failed(S) == [ok |-> FALSE, tree |-> S, undo |-> Panic]
Finished(S, undo) == [ok |-> TRUE, tree |-> S, undo |-> undo]

\* p is path or lies below it.
Below(path, p) == Len(path) <= Len(p) /\ SubSeq(p, 1, Len(path)) = path

\* An entry can be made at p: nothing is there and its parent is a directory.
Vacant(S, p) == Lookup(S, p) = Absent /\ Lookup(S, parent(p)) = DirNode

\* LinkOp::rollback.
LinkOp_rollback(self) == Panic

\* LinkOp::finish: unix::fs::symlink(src, dest); the undo op is rollback().
LinkOp_finish(self, S) ==
    IF Vacant(S, self.dest)
    THEN Finished([S EXCEPT ![self.dest] = SymlinkNode(self.src)],
                  LinkOp_rollback(self))
    ELSE Failed(S)

\* Mkdir{path}: creates a single directory; its inverse removes it.
MkdirOp_finish(self, S) ==
    IF Vacant(S, self.path)
    THEN Finished([S EXCEPT ![self.path] = DirNode], MkdirUndoOp(self.path))
    ELSE Failed(S)

\* The inverse of Mkdir: removes the directory iff it is empty; its own
\* inverse is the Mkdir.
MkdirUndoOp_finish(self, S) ==
    IF Lookup(S, self.path) # DirNode THEN Failed(S)
    ELSE IF \E p \in Path : p # self.path /\ Below(self.path, p) /\ S[p] # Absent
    THEN Finished(S, MkdirOp(self.path))
    ELSE Finished([S EXCEPT ![self.path] = Absent], MkdirOp(self.path))

\* Rm{path,dir}: removes a file or symlink, or a directory with all below it;
\* what it removes is kept in the backup directory for the inverse.
RmOp_finish(self, S) ==
    LET kind == Lookup(S, self.path).kind
        gone == {p \in Path : Below(self.path, p)}
    IN  IF (self.dir /\ kind = "dir") \/ (~self.dir /\ kind \in {"file", "symlink"})
        THEN Finished([p \in Path |-> IF p \in gone THEN Absent ELSE S[p]],
                      RmUndoOp(self.path, [p \in gone |-> S[p]]))
        ELSE Failed(S)

\* The inverse of Rm: puts back what the backup holds; its own inverse is
\* the Rm.
RmUndoOp_finish(self, S) ==
    IF Vacant(S, self.path)
    THEN Finished([p \in Path |-> IF p \in DOMAIN self.saved THEN self.saved[p]
                                  ELSE S[p]],
                  RmOp(self.path, self.saved[self.path].kind = "dir"))
    ELSE Failed(S)

CreateUndoOp(path) == [op |-> "CreateUndo", path |-> path]
\* saved: the entry that was at path before the Write.
WriteUndoOp(path, saved) == [op |-> "WriteUndo", path |-> path, saved |-> saved]

\* Create{path}: creates an empty file where there is nothing; its inverse
\* removes the file.
CreateOp_finish(self, S) ==
    IF Vacant(S, self.path)
    THEN Finished([S EXCEPT ![self.path] = FileNode("")], CreateUndoOp(self.path))
    ELSE Failed(S)

\* The inverse of Create: removes the file; its own inverse is the Create.
CreateUndoOp_finish(self, S) ==
    IF Lookup(S, self.path).kind = "file"
    THEN Finished([S EXCEPT ![self.path] = Absent], CreateOp(self.path))
    ELSE Failed(S)

\* Write{path,bytes}: truncates the file at path, or makes it, and writes the
\* bytes; its inverse puts back what was there.
WriteOp_finish(self, S) ==
    IF Lookup(S, self.path).kind = "file" \/ Vacant(S, self.path)
    THEN Finished([S EXCEPT ![self.path] = FileNode(self.contents)],
                  WriteUndoOp(self.path, S[self.path]))
    ELSE Failed(S)

\* The inverse of Write: the previous bytes, or no file if there was none;
\* its own inverse is the Write.
WriteUndoOp_finish(self, S) ==
    IF Lookup(S, self.path).kind = "file"
    THEN Finished([S EXCEPT ![self.path] = self.saved],
                  WriteOp(self.path, S[self.path].content))
    ELSE Failed(S)

\* saved: what was at dest and below it before the Copy.
CopyUndoOp(src, dest, dir, saved) ==
    [op |-> "CopyUndo", src |-> src, dest |-> dest, dir |-> dir, saved |-> saved]

\* The bytes of the file at p, following symlinks as fs::copy does.
RECURSIVE copy_source(_, _, _)
copy_source(S, p, hops) ==
    LET n == Lookup(S, p) IN
    IF n.kind = "file" THEN [ok |-> TRUE, s |-> n.content]
    ELSE IF n.kind = "symlink" /\ hops > 0 THEN copy_source(S, n.target, hops - 1)
    ELSE [ok |-> FALSE, s |-> "-"]

\* Copy{src,dest,dir}: copies a file to dest, or a directory with all below
\* it to a dest that does not exist; its inverse puts back what was at dest.
CopyOp_finish(self, S) ==
    LET under == {p \in Path : Below(self.dest, p)}
        saved == [p \in under |-> S[p]]
        bytes == copy_source(S, self.src, Cardinality(Path))
        from(p) == self.src \o SubSeq(p, Len(self.dest) + 1, Len(p))
        undo == CopyUndoOp(self.src, self.dest, self.dir, saved)
    IN  IF self.dir
        THEN IF /\ Lookup(S, self.src).kind = "dir"
                /\ Vacant(S, self.dest)
                /\ ~Below(self.src, self.dest)
             THEN Finished([p \in Path |-> IF p \in under THEN Lookup(S, from(p))
                                           ELSE S[p]], undo)
             ELSE Failed(S)
        ELSE IF /\ bytes.ok
                /\ Lookup(S, self.dest).kind = "file" \/ Vacant(S, self.dest)
             THEN Finished([S EXCEPT ![self.dest] = FileNode(bytes.s)], undo)
             ELSE Failed(S)

\* The inverse of Copy: removes the copy and puts back what was at dest; its
\* own inverse is the Copy.
CopyUndoOp_finish(self, S) ==
    IF Lookup(S, self.dest).kind = (IF self.dir THEN "dir" ELSE "file")
    THEN Finished([p \in Path |-> IF p \in DOMAIN self.saved THEN self.saved[p]
                                  ELSE S[p]],
                  CopyOp(self.src, self.dest, self.dir))
    ELSE Failed(S)

\* The ops whose finish is described here.
Runnable(o) ==
    o.op \in {"Link", "Mkdir", "MkdirUndo", "Rm", "RmUndo",
              "Create", "CreateUndo", "Write", "WriteUndo", "Copy", "CopyUndo"}

\* op.finish(ctx) on the filesystem S: whether it succeeded, the filesystem
\* it leaves, and finish.rollback(), the undo op.
Op_finish(o, S) ==
    IF o.op = "Link" THEN LinkOp_finish(o, S)
    ELSE IF o.op = "Mkdir" THEN MkdirOp_finish(o, S)
    ELSE IF o.op = "MkdirUndo" THEN MkdirUndoOp_finish(o, S)
    ELSE IF o.op = "Rm" THEN RmOp_finish(o, S)
    ELSE IF o.op = "RmUndo" THEN RmUndoOp_finish(o, S)
    ELSE IF o.op = "Create" THEN CreateOp_finish(o, S)
    ELSE IF o.op = "CreateUndo" THEN CreateUndoOp_finish(o, S)
    ELSE IF o.op = "Write" THEN WriteOp_finish(o, S)
    ELSE IF o.op = "WriteUndo" THEN WriteUndoOp_finish(o, S)
    ELSE IF o.op = "Copy" THEN CopyOp_finish(o, S)
    ELSE IF o.op = "CopyUndo" THEN CopyUndoOp_finish(o, S)
    ELSE Failed(S)

(* ------------------------------------------------------- package paths *)
\* A PathBuf of a directive or a root: absolute or relative, its components
\* kept as written ("." and ".." included) until the path is cleaned.
PathBuf(abs, comps) == [abs |-> abs, comps |-> comps]

\* Path::join: an absolute `path` replaces `start`.
Path_join(start, path) ==
    IF path.abs THEN path ELSE PathBuf(start.abs, start.comps \o path.comps)

\* The components of the cleaned path: "." is dropped, ".." removes the
\* component before it, is dropped at the root and is kept at the front of a
\* relative path.
RECURSIVE clean_comps(_, _, _)
clean_comps(abs, out, rest) ==
    IF rest = <<>> THEN out
    ELSE LET c == Head(rest) IN
         IF c = "." THEN clean_comps(abs, out, Tail(rest))
         ELSE IF c # ".." THEN clean_comps(abs, Append(out, c), Tail(rest))
         ELSE IF out # <<>> /\ out[Len(out)] # ".."
              THEN clean_comps(abs, SubSeq(out, 1, Len(out) - 1), Tail(rest))
         ELSE IF abs THEN clean_comps(abs, out, Tail(rest))
         ELSE clean_comps(abs, Append(out, ".."), Tail(rest))

\* fse::clean / PathClean::clean: the lexically cleaned path; an empty
\* relative path is ".".
fse_clean(p) ==
    LET c == clean_comps(p.abs, <<>>, p.comps) IN
    IF ~p.abs /\ c = <<>> THEN PathBuf(FALSE, <<".">>) ELSE PathBuf(p.abs, c)

\* Option<PathBuf>::None.
NoDest == [abs |-> FALSE, comps |-> <<>>, none |-> TRUE]

(* ---------------------------------------------------------- directives *)
RegularFile(src, dest, link_type, optional) ==
    [kind |-> "Regular", src |-> src, dest |-> dest, link_type |-> link_type,
     optional |-> optional]
TemplatedFile(src, dest, typ, optional) ==
    [kind |-> "Templated", src |-> src, dest |-> dest, typ |-> typ,
     optional |-> optional]
TreeFile(src, dest, link_type, optional) ==
    [kind |-> "Tree", src |-> src, dest |-> dest, link_type |-> link_type,
     optional |-> optional]
GeneratedFile(dest, typ, contents) ==
    [kind |-> "Generated", dest |-> dest, typ |-> typ, contents |-> contents]
DirFile(dest, parents) == [kind |-> "Dir", dest |-> dest, parents |-> parents]
CmdHook(start) == [kind |-> "Cmd", start |-> start]
FunHook(name, start) == [kind |-> "Fun", name |-> name, start |-> start]

RelA == PathBuf(FALSE, <<"a">>)
RelUpA == PathBuf(FALSE, <<"..", "a">>)
RelDotB == PathBuf(FALSE, <<".", "b">>)
AbsE == PathBuf(TRUE, <<"e">>)

\* The directives a package script is made of.
Directive ==
    { RegularFile(RelA, NoDest, "Link", FALSE),
      RegularFile(RelUpA, RelDotB, "Copy", TRUE),
      RegularFile(AbsE, NoDest, "Copy", FALSE),
      RegularFile(RelA, AbsE, "Link", TRUE),
      TemplatedFile(RelA, RelDotB, "Handlebars", FALSE),
      TemplatedFile(RelUpA, RelDotB, "Liquid", TRUE),
      TreeFile(RelA, NoDest, "Link", FALSE),
      TreeFile(RelUpA, RelDotB, "Copy", TRUE),
      GeneratedFile(RelDotB, "Empty", ""),
      GeneratedFile(RelDotB, "String", "x"),
      GeneratedFile(RelA, "Yaml", ""),
      DirFile(RelUpA, TRUE),
      CmdHook(NoDest),
      FunHook("f", RelA) }

\* The package root and the destination roots a caller passes.
PackageRoot == PathBuf(TRUE, <<"p">>)
DestRoot == {PathBuf(TRUE, <<"d">>), PathBuf(TRUE, <<"d", ".", "..", "h">>)}

(* ----------------------------------------------------------- ActionIter *)
\* PackageData { path, spec, lua }: lua is the names in the Lua registry.
PackageData(path, directives, lua) ==
    [path |-> path, directives |-> directives, lua |-> lua]

\* ActionIter { dest, path, lua, directives }: directives is the slice
\* iterator, the position in spec.directives.
ActionIter(dest, path, lua, directives) ==
    [dest |-> dest, path |-> path, lua |-> lua, directives |-> directives]

\* PackageData::action_iter.
action_iter(self, dest) == ActionIter(dest, self.path, self.lua, 0)

\* ActionIter::normalize_path.
ActionIter_normalize_path(path, start) == fse_clean(Path_join(start, path))
ActionIter_join_package(self, path) == ActionIter_normalize_path(path, self.path)
ActionIter_join_dest(self, path) == ActionIter_normalize_path(path, self.dest)

Action_Link(src, dest, copy, optional) ==
    [variant |-> "Link", src |-> src, dest |-> dest, copy |-> copy,
     optional |-> optional]
\* The panic of an unwrap() or a todo!().
Action_Panic == [variant |-> "Panic"]

\* get_file_regular that joins a missing dest to nothing: the destination
\* root itself.
get_file_regular_dest_root(self, rf) ==
    Action_Link(ActionIter_join_package(self, rf.src),
                IF rf.dest = NoDest THEN self.dest
                ELSE ActionIter_join_dest(self, rf.dest),
                rf.link_type = "Copy", rf.optional)

\* ActionIter::get_file_regular.
get_file_regular(self, rf) ==
    Action_Link(ActionIter_join_package(self, rf.src),
                ActionIter_join_dest(self, IF rf.dest = NoDest THEN rf.src
                                           ELSE rf.dest),
                rf.link_type = "Copy", rf.optional)

\* ActionIter::get_file_template.
get_file_template(self, tf) ==
    [variant |-> tf.typ,
     src |-> ActionIter_join_package(self, tf.src),
     dest |-> ActionIter_join_dest(self, tf.dest),
     optional |-> tf.optional]

\* ActionIter::get_file_tree.
get_file_tree(self, tf) ==
    [variant |-> "Tree",
     src |-> ActionIter_join_package(self, tf.src),
     dest |-> IF tf.dest = NoDest THEN self.dest
              ELSE ActionIter_join_dest(self, tf.dest),
     copy |-> tf.link_type = "Copy",
     optional |-> tf.optional]

\* ActionIter::get_file_generated.
get_file_generated(self, gf) ==
    IF gf.typ \in {"Empty", "String"}
    THEN [variant |-> "Write", dest |-> ActionIter_join_dest(self, gf.dest),
          contents |-> into_bytes(gf.contents)]
    ELSE [variant |-> gf.typ, dest |-> ActionIter_join_dest(self, gf.dest)]

\* ActionIter::get_file_dir.
get_file_dir(self, df) ==
    [variant |-> "Mkdir", path |-> ActionIter_join_dest(self, df.dest),
     parents |-> df.parents]

\* The start directory of a hook: the package root when none is given.
hook_start(self, start) ==
    IF start = NoDest THEN self.path ELSE ActionIter_join_package(self, start)

\* ActionIter::get_hook_cmd.
get_hook_cmd(self, cmd) ==
    [variant |-> "Command", start |-> hook_start(self, cmd.start)]

\* ActionIter::get_hook_fun: the unwrap() panics on a name that is not in
\* the registry.
get_hook_fun(self, fun) ==
    IF fun.name \notin self.lua THEN Action_Panic
    ELSE [variant |-> "Function", function |-> fun.name,
          start |-> hook_start(self, fun.start)]

\* ActionIter::get_directive.
get_directive(self, drct) ==
    CASE drct.kind = "Regular" -> get_file_regular(self, drct)
      [] drct.kind = "Templated" -> get_file_template(self, drct)
      [] drct.kind = "Tree" -> get_file_tree(self, drct)
      [] drct.kind = "Generated" -> get_file_generated(self, drct)
      [] drct.kind = "Dir" -> get_file_dir(self, drct)
      [] drct.kind = "Cmd" -> get_hook_cmd(self, drct)
      [] drct.kind = "Fun" -> get_hook_fun(self, drct)

\* next() that passes over a Tree directive without yielding for it.
RECURSIVE ActionIter_next_skip_tree(_, _)
ActionIter_next_skip_tree(self, drcts) ==
    IF self.directives = Len(drcts) THEN [it |-> self, some |-> FALSE]
    ELSE LET drct == drcts[self.directives + 1]
             it == [self EXCEPT !.directives = @ + 1]
         IN  IF drct.kind = "Tree" THEN ActionIter_next_skip_tree(it, drcts)
             ELSE [it |-> it, some |-> TRUE, item |-> get_directive(it, drct)]

\* ActionIter::next over the slice `drcts`: None at its end, else the action
\* of the next directive.
ActionIter_next(self, drcts) ==
    IF self.directives = Len(drcts) THEN [it |-> self, some |-> FALSE]
    ELSE LET drct == drcts[self.directives + 1]
             it == [self EXCEPT !.directives = @ + 1]
         IN  [it |-> it, some |-> TRUE, item |-> get_directive(it, drct)]

(* ---------------------------------------------------------- PackageIter *)
\* Linker::new(dest): the destination root is cleaned.
Linker_new(dest) == [dest |-> fse_clean(dest)]

\* PackageIter { dest, path, lua, directives, next }: directives is the
\* queue of directives not yet converted, next the items the boxed iterator
\* has still to give.
PackageIter(dest, path, lua, directives, next) ==
    [dest |-> dest, path |-> path, lua |-> lua, directives |-> directives,
     next |-> next]

\* Linker::link_one: next = iter::empty().
link_one(dest, lua, path, directives) ==
    PackageIter(dest, path, lua, directives, <<>>)

\* PackageIter::normalize_path.
PackageIter_normalize_path(path, start) ==
    fse_clean(IF ~path.abs THEN Path_join(start, path) ELSE path)
PackageIter_join_package(self, path) == PackageIter_normalize_path(path, self.path)
PackageIter_join_dest(self, path) == PackageIter_normalize_path(path, self.dest)

Action_WriteFile(dest, contents) ==
    [variant |-> "WriteFile", dest |-> dest, contents |-> contents]

\* Items of the stream: Ok(action) or Err.
Item_Ok(action) == [ok |-> TRUE, action |-> action]
Item_Err == [ok |-> FALSE, action |-> [variant |-> "Error"]]

\* What convert() gives: the items of the iterator it returns, or a panic.
Converted(items) == [panic |-> FALSE, items |-> items]
ConvertPanic == [panic |-> TRUE, items |-> <<>>]

\* PackageIter::convert_regular; E is the set of paths that exist.
convert_regular(self, rf, E) ==
    LET src_full == PackageIter_join_package(self, rf.src) IN
    IF rf.optional /\ src_full \notin E THEN Converted(<<>>)
    ELSE Converted(<<Item_Ok(
            [variant |-> "LinkFile",
             src |-> src_full,
             dest |-> PackageIter_join_dest(self, IF rf.dest = NoDest THEN rf.src
                                                  ELSE rf.dest),
             copy |-> rf.link_type = "Copy"])>>)

\* PackageIter::convert_template; render is what templating::hbs::render
\* returns, the contents or "err".
convert_template(self, tf, E, render) ==
    LET src_full == PackageIter_join_package(self, tf.src) IN
    IF tf.optional /\ src_full \notin E THEN Converted(<<>>)
    ELSE LET dest_full == PackageIter_join_dest(self, tf.dest)
             contents == IF tf.typ = "Handlebars" THEN render ELSE ""
         IN  Converted(<<IF contents = "err" THEN Item_Err
                         ELSE Item_Ok(Action_WriteFile(dest_full, contents))>>)

\* PackageIter::convert_tree.
convert_tree(self, tf) == Converted(<<>>)

\* PackageIter::convert_generated: dest is joined and not cleaned; Yaml,
\* Toml and Json are todo!().
convert_generated(self, gf) ==
    IF gf.typ \in {"Empty", "String"}
    THEN Converted(<<Item_Ok(Action_WriteFile(Path_join(self.dest, gf.dest),
                                              gf.contents))>>)
    ELSE ConvertPanic

\* PackageIter::convert / convert_file: a hook is todo!().
convert(self, drct, E, render) ==
    CASE drct.kind = "Regular" -> convert_regular(self, drct, E)
      [] drct.kind = "Templated" -> convert_template(self, drct, E, render)
      [] drct.kind = "Tree" -> convert_tree(self, drct)
      [] drct.kind = "Generated" -> convert_generated(self, drct)
      [] OTHER -> ConvertPanic

Next_Some(it, item) == [it |-> it, kind |-> "Some", item |-> item]
Next_None(it) == [it |-> it, kind |-> "None", item |-> Item_Err]
Next_Panic(it) == [it |-> it, kind |-> "Panic", item |-> Item_Err]

\* next() that returns None as soon as a directive converts to no item.
PackageIter_next_end_on_empty(self, E, render) ==
    IF self.next # <<>>
    THEN Next_Some([self EXCEPT !.next = Tail(@)], Head(self.next))
    ELSE IF self.directives = <<>> THEN Next_None(self)
    ELSE LET c == convert(self, Head(self.directives), E, render)
             it == [self EXCEPT !.directives = Tail(@), !.next = c.items]
         IN  IF c.panic THEN Next_Panic(it)
             ELSE IF c.items = <<>> THEN Next_None(it)
             ELSE Next_Some([it EXCEPT !.next = Tail(@)], Head(it.next))

\* PackageIter::next: the next item of the boxed iterator; when it has none,
\* the front directive is popped and converted and next() is called again.
RECURSIVE PackageIter_next(_, _, _)
PackageIter_next(self, E, render) ==
    IF self.next # <<>>
    THEN Next_Some([self EXCEPT !.next = Tail(@)], Head(self.next))
    ELSE IF self.directives = <<>> THEN Next_None(self)
    ELSE LET c == convert(self, Head(self.directives), E, render)
             it == [self EXCEPT !.directives = Tail(@), !.next = c.items]
         IN  IF c.panic THEN Next_Panic(it) ELSE PackageIter_next(it, E, render)

(* --------------------------------------------------------------- loader *)
\* The package script: the directives its calls on `pkg` add, in order, and
\* whether it raises a Lua error after them.
Script(directives, raises) == [directives |-> directives, raises |-> raises]
\* There is no package.lua.
NoScript == [directives |-> <<>>, raises |-> FALSE, missing |-> TRUE]

\* SpecLoader { path, contents, lua }: spec is the Spec of the `pkg` global,
\* lua the names in the registry.
SpecLoader(state, path, contents, spec, lua) ==
    [state |-> state, path |-> path, contents |-> contents, spec |-> spec,
     lua |-> lua]

\* The names the `fn` method put in the registry for the function hooks.
Registered(directives) ==
    {directives[i].name : i \in {j \in 1..Len(directives) : directives[j].kind = "Fun"}}

\* chunk.exec(): the script runs its calls on `pkg`; Err when it raises.
chunk_exec(self) ==
    [ok |-> ~self.contents.raises,
     spec |-> self.spec \o self.contents.directives,
     lua |-> self.lua \cup Registered(self.contents.directives)]

\* env::set_current_dir(path) in the working directory d.
set_current_dir(d, path) == fse_clean(Path_join(d, path))

\* SpecLoaderRead::eval in the working directory d: the loader, the result
\* and the working directory it leaves.  The `?` on chunk.exec() returns
\* from eval at once.
SpecLoaderRead_eval(self, d) ==
    LET cwd == d
        at_root == set_current_dir(d, self.path)
        e == chunk_exec(self)
    IN  IF ~e.ok
        THEN [ok |-> FALSE, cwd |-> at_root,
              loader |-> [self EXCEPT !.state = "lua_error", !.spec = e.spec,
                                      !.lua = e.lua]]
        ELSE [ok |-> TRUE, cwd |-> set_current_dir(at_root, cwd),
              loader |-> [self EXCEPT !.state = "evaled", !.spec = e.spec,
                                      !.lua = e.lua]]

\* SpecLoaderEmpty::read: the contents of package.lua, or the io::Error.
SpecLoaderEmpty_read(self, config) ==
    IF config = NoScript THEN [self EXCEPT !.state = "read_error"]
    ELSE [self EXCEPT !.state = "read", !.contents = config]

\* SpecLoaderEmpty::new / lua_instance: an empty Spec in the `pkg` global.
SpecLoaderEmpty_new(path) == SpecLoader("empty", path, "", <<>>, {})

\* SpecLoaderEvaled::to_package_data.
to_package_data(self) == PackageData(self.path, self.spec, self.lua)

(* ------------------------------------------------------------- packages *)
\* A package script has at most this many directives.
MaxDirectives == 2

RECURSIVE SeqsUpTo(_, _)
SeqsUpTo(S, n) ==
    IF n = 0 THEN {<<>>}
    ELSE LET shorter == SeqsUpTo(S, n - 1) IN
         shorter \cup {Append(s, x) : s \in {t \in shorter : Len(t) = n - 1}, x \in S}

\* The scripts package.lua can hold.
Scripts == {Script(ds, r) : ds \in SeqsUpTo(Directive, MaxDirectives), r \in BOOLEAN}

WorkDir == PathBuf(TRUE, <<"w">>)

\* No package loaded; no stream made.
NoPkg == [path |-> PackageRoot, directives |-> <<>>, lua |-> {}, none |-> TRUE]
NoActionIter == [pc |-> "none"]
NoPackageIter == [pc |-> "none"]
NoLoader == [state |-> "none"]
NoDisk == [exists |-> {}, config |-> NoScript]

(* ---------------------------------------------------------------- state *)
VARIABLES
    records,     \* Journal: the in-memory record vector
    writer,      \* Journal: the bytes the writer has received
    session,     \* "idle", or the call that made the live iterator
    iter,        \* RollbackIter: idx and appended
    fs,          \* the filesystem the caller executes ops on
    call,        \* the latest call the caller made
    ret,         \* what the latest call returned
    lastAppend,  \* "ok" / "err" / "none": the append of the latest call
    base,        \* records when the live iterator was made
    fsBase,      \* fs when the live iterator was made
    yielded,     \* the ops the live iterator has yielded so far
    nones,       \* how many times the live iterator has returned None
    failures,    \* appends on which the writer failed so far
    prev,        \* the session that ended just before this one began; for an
                 \* abandoned one, fs0 is the filesystem from before its run
    exec,        \* the executor driving the journal, if there is one
    tree,        \* the filesystem that actions are resolved and ops run on
    oprun,       \* the resolution being run on tree and how far it has got
    cwd,         \* the working directory of the process
    disk,        \* the package directory: package.lua and the paths that exist
    loader,      \* SpecLoader: its typestate, path, contents and Lua state
    pkg,         \* the PackageData the loader returned
    aiter,       \* ActionIter and what it has yielded
    piter        \* PackageIter and what it has yielded

vars == <<records, writer, session, iter, fs, call, ret, lastAppend, base, fsBase,
          yielded, nones, failures, prev, exec, tree, oprun,
          cwd, disk, loader, pkg, aiter, piter>>

\* The journal and its caller.
jvars == <<records, writer, session, iter, fs, call, ret, lastAppend, base, fsBase,
           yielded, nones, failures, prev, exec>>
\* The filesystem of the resolver and the ops.
opvars == <<tree, oprun>>
\* The loader and the action streams of a package.
pvars == <<cwd, disk, loader, pkg, aiter, piter>>

\* No package is being loaded.
FrontIdle ==
    /\ cwd = WorkDir
    /\ disk = NoDisk
    /\ loader = NoLoader
    /\ pkg = NoPkg
    /\ aiter = NoActionIter
    /\ piter = NoPackageIter

\* No action is being resolved.
NoTree == <<>>
NoRun == [pc |-> "none"]
\* No executor: the caller drives the journal itself, as the tests do.
NoExec == [phase |-> "none"]

NoPrev == [valid |-> FALSE, mode |-> "idle", fs0 |-> 0, run |-> <<>>,
           undone |-> FALSE, nyield |-> 0]

RetUnit == [kind |-> "Unit", data |-> "-"]
RetSome == [kind |-> "Some", data |-> "-"]

\* Journal::new(writer).
Init ==
    /\ records = <<>>
    /\ writer = <<>>
    /\ session = "idle"
    /\ iter = NoIter
    /\ fs = 0
    /\ call = "new"
    /\ ret = RetUnit
    /\ lastAppend = "none"
    /\ base = <<>>
    /\ fsBase = 0
    /\ yielded = <<>>
    /\ nones = 0
    /\ failures = 0
    /\ prev = NoPrev
    /\ exec = NoExec
    /\ tree = NoTree
    /\ oprun = NoRun
    /\ FrontIdle

Outcomes == {o \in WriterOutcome : o = "ok" \/ failures < MaxFail}

(* ------------------------------------------------------------- helpers  *)
\* The maximal run of Action records at the end of recs.
TrailingRun(recs) ==
    LET n == Len(recs)
        starts == {i \in 0..n : \A j \in (i + 1)..n : recs[j].tag = "Action"}
        s == CHOOSE i \in starts : \A k \in starts : i <= k
    IN  SubSeq(recs, s + 1, n)

Front(s) == SubSeq(s, 1, Len(s) - 1)

\* The run a rollback session made by `mode` on `recs` is to undo.
SessionRun(mode, recs) ==
    IF mode = "rollback" THEN TrailingRun(recs)
    ELSE IF recs # <<>> THEN TrailingRun(Front(recs)) ELSE <<>>

DataOf(run) == [i \in 1..Len(run) |-> run[i].data]
ActionsOf(ds) == [i \in 1..Len(ds) |-> Action(ds[i])]

\* rollback(ak), ..., rollback(a1) for the run a1..ak.
InverseData(run) ==
    [i \in 1..Len(run) |-> Datum_rollback(run[Len(run) + 1 - i].data)]

IsPrefix(s, t) == Len(s) <= Len(t) /\ SubSeq(t, 1, Len(s)) = s

\* The filesystem after the ops ds are executed in order on f.
RECURSIVE FinishAll(_, _)
FinishAll(ds, f) ==
    IF ds = <<>> THEN f ELSE FinishAll(Tail(ds), Datum_finish(Head(ds), f))

\* The live rollback() iterator has so far yielded and appended j >= 1
\* inverses of the uncommitted run it was made on, and no Commit.
Abandoned ==
    /\ session = "rollback"
    /\ nones = 0
    /\ yielded # <<>>
    /\ IsPrefix(yielded, InverseData(TrailingRun(base)))
    /\ records = base \o ActionsOf(yielded)

(* -------------------------------------------------------------- actions *)
\* journal.append(FORWARD)?, journal.append(COMMIT)? of the tests.
CallAppend ==
    /\ session = "idle"
    /\ Len(records) < MaxLen
    /\ \E r \in Record, o \in Outcomes :
        LET a == Journal_append(records, writer, r, o) IN
        /\ records' = a.records
        /\ writer' = a.writer
        /\ ret' = IF a.ok THEN RetUnit ELSE RetErr
        /\ lastAppend' = IF a.ok THEN "ok" ELSE "err"
        /\ failures' = IF a.ok THEN failures ELSE failures + 1
    /\ call' = "append"
    /\ prev' = NoPrev
    /\ UNCHANGED <<opvars, pvars>>
    /\ UNCHANGED <<session, iter, fs, base, fsBase, yielded, nones, exec>>

\* let mut rollback = journal.rollback();
CallRollback ==
    /\ session = "idle"
    /\ session' = "rollback"
    /\ iter' = Journal_rollback
    /\ call' = "rollback"
    /\ ret' = RetSome
    /\ lastAppend' = "none"
    /\ base' = records
    /\ fsBase' = fs
    /\ yielded' = <<>>
    /\ nones' = 0
    /\ UNCHANGED <<opvars, pvars>>
    /\ UNCHANGED <<records, writer, fs, failures, prev, exec>>

\* let rollback = journal.rollback_last();
CallRollbackLast ==
    /\ session = "idle"
    /\ LET r == Journal_rollback_last(records) IN
        /\ session' = IF r.some THEN "rollback_last" ELSE "idle"
        /\ iter' = r.it
        /\ ret' = IF r.some THEN RetSome ELSE RetNone
        /\ prev' = IF r.some THEN prev ELSE NoPrev
        /\ base' = IF r.some THEN records ELSE <<>>
        /\ fsBase' = IF r.some THEN fs ELSE 0
    /\ call' = "rollback_last"
    /\ lastAppend' = "none"
    /\ yielded' = <<>>
    /\ nones' = 0
    /\ UNCHANGED <<opvars, pvars>>
    /\ UNCHANGED <<records, writer, fs, failures, exec>>

\* rollback.next(), the caller executing the op it yields.
CallNext ==
    /\ session # "idle"
    /\ nones < MaxNones
    /\ Len(records) < MaxRecords
    /\ \E o \in Outcomes :
        LET n == RollbackIter_next(iter, records, writer, o) IN
        /\ iter' = n.it
        /\ records' = n.records
        /\ writer' = n.writer
        /\ ret' = n.ret
        /\ lastAppend' = n.append
        /\ fs' = IF n.ret.kind = "Ok" THEN Datum_finish(n.ret.data, fs) ELSE fs
        /\ yielded' = IF n.ret.kind = "Ok" THEN Append(yielded, n.ret.data)
                      ELSE yielded
        /\ nones' = IF n.ret.kind = "None" THEN nones + 1 ELSE nones
        /\ failures' = IF n.append = "err" THEN failures + 1 ELSE failures
    /\ call' = "next"
    /\ UNCHANGED <<opvars, pvars>>
    /\ UNCHANGED <<session, base, fsBase, prev, exec>>

\* The iterator goes out of scope; the journal can be borrowed again.
DropIter ==
    /\ session # "idle"
    /\ prev' = IF nones = 1 /\ ret.kind = "None"
               THEN [valid |-> TRUE, mode |-> session, fs0 |-> fsBase,
                     run |-> SessionRun(session, base),
                     undone |-> /\ SessionRun(session, base) # <<>>
                                /\ yielded = InverseData(SessionRun(session, base)),
                     nyield |-> Len(yielded)]
               ELSE IF Abandoned
               THEN [valid |-> FALSE, mode |-> "abandoned",
                     fs0 |-> FinishAll(InverseData(TrailingRun(base)), fsBase),
                     run |-> <<>>, undone |-> FALSE, nyield |-> 0]
               ELSE NoPrev
    /\ session' = "idle"
    /\ iter' = NoIter
    /\ call' = "drop"
    /\ ret' = RetUnit
    /\ lastAppend' = "none"
    /\ base' = <<>>
    /\ fsBase' = 0
    /\ yielded' = <<>>
    /\ nones' = 0
    /\ UNCHANGED <<opvars, pvars>>
    /\ UNCHANGED <<records, writer, fs, failures, exec>>

Next ==
    \/ CallAppend
    \/ CallRollback
    \/ CallRollbackLast
    \/ CallNext
    \/ DropIter

Spec == Init /\ [][Next]_vars

(* ------------------------------------------------------------- executor *)
\* The executor takes at most this many actions from the action stream.
MaxActions == 3

\* Every resolution LinkAction::resolve can give.
Resolutions == {LinkAction_resolve(a, S) : a \in LinkAction, S \in FsState}

\* The journal is generic in its T; the executor is run over the T of the
\* journal tests, an op that removes an entry being Backward and an op that
\* makes one being Forward.
OpDatum(op) == IF op.op = "Rm" THEN "Backward" ELSE "Forward"
OpData(ops) == [i \in 1..Len(ops) |-> OpDatum(ops[i])]

\* finish.rollback() of op o, the T that the executor journals for it.
UndoOf(o) == Datum_rollback(o)
UndoRecords(ops) == [i \in 1..Len(ops) |-> Action(UndoOf(ops[i]))]

\* Executor::new: no action taken from the stream yet.
\*   phase    where the executor is in its loop
\*   nact     actions taken from the stream
\*   res      resolution of the current action
\*   ops      ops of the current action
\*   k        ops of the current action whose record is in the journal
\*   applied  ops of the current action that finished successfully
\*   done     the op lists of the actions committed so far
\*   err      the error the executor surfaces
\*   fs0      the filesystem when the deployment began
\*   fsAct    the filesystem when the current action began
\*   baseAct  the records when the current action began
ExecStart ==
    [phase |-> "idle", nact |-> 0, res |-> "-", ops |-> <<>>, k |-> 0,
     applied |-> 0, done |-> <<>>, err |-> "none", fs0 |-> 0, fsAct |-> 0,
     baseAct |-> <<>>]

ExecInit ==
    /\ records = <<>>
    /\ writer = <<>>
    /\ session = "idle"
    /\ iter = NoIter
    /\ fs = 0
    /\ call = "new"
    /\ ret = RetUnit
    /\ lastAppend = "none"
    /\ base = <<>>
    /\ fsBase = 0
    /\ yielded = <<>>
    /\ nones = 0
    /\ failures = 0
    /\ prev = NoPrev
    /\ exec = ExecStart
    /\ tree = NoTree
    /\ oprun = NoRun
    /\ FrontIdle

\* Faulty variant: a skipped action is committed like an action without ops.
ExecResolve_commit_skipped ==
    /\ exec.phase = "idle"
    /\ exec.nact < MaxActions
    /\ \E r \in Resolutions :
        /\ exec' = [exec EXCEPT
                    !.phase = IF r.res = "Err" THEN "done"
                              ELSE IF r.res = "Skip" THEN "idle" ELSE "ops",
                    !.nact = @ + 1,
                    !.res = r.res,
                    !.ops = OpData(r.ops),
                    !.k = 0,
                    !.applied = 0,
                    !.err = IF r.res = "Err" THEN "resolve" ELSE "none",
                    !.fsAct = fs,
                    !.baseAct = records]
        /\ records' = IF r.res = "Skip" THEN Append(records, COMMIT) ELSE records
    /\ UNCHANGED <<opvars, pvars>>
    /\ UNCHANGED <<writer, session, iter, fs, call, ret, lastAppend, base,
                   fsBase, yielded, nones, failures, prev>>

\* Take the next action and resolve it: Skip is logged and the executor goes
\* on, a resolution error is surfaced, Normal and Overwrite have their ops run.
ExecResolve ==
    /\ exec.phase = "idle"
    /\ exec.nact < MaxActions
    /\ \E r \in Resolutions :
        exec' = [exec EXCEPT
                    !.phase = IF r.res = "Err" THEN "done"
                              ELSE IF r.res = "Skip" THEN "idle" ELSE "ops",
                    !.nact = @ + 1,
                    !.res = r.res,
                    !.ops = OpData(r.ops),
                    !.k = 0,
                    !.applied = 0,
                    !.err = IF r.res = "Err" THEN "resolve" ELSE "none",
                    !.fsAct = fs,
                    !.baseAct = records]
    /\ UNCHANGED <<opvars, pvars>>
    /\ UNCHANGED <<records, writer, session, iter, fs, call, ret, lastAppend, base,
                   fsBase, yielded, nones, failures, prev>>

\* op.finish(ctx) of the next op: it succeeds and has its effect, or it fails,
\* has none, and the executor turns to journal.rollback().
ExecFinish ==
    /\ exec.phase = "ops"
    /\ \E ok \in BOOLEAN :
        IF ok
        THEN /\ fs' = Datum_finish(exec.ops[exec.k + 1], fs)
             /\ exec' = [exec EXCEPT !.phase = "record", !.applied = @ + 1]
             /\ UNCHANGED iter
        ELSE /\ fs' = fs
             /\ exec' = [exec EXCEPT !.phase = "rollback", !.err = "op"]
             /\ iter' = Journal_rollback
    /\ UNCHANGED <<opvars, pvars>>
    /\ UNCHANGED <<records, writer, session, call, ret, lastAppend, base, fsBase,
                   yielded, nones, failures, prev>>

\* Faulty variant: the executor goes on to Commit after the first record of
\* an action, leaving the remaining ops out.
ExecRecord_commit_early ==
    /\ exec.phase = "record"
    /\ \E o \in Outcomes :
        LET a == Journal_append(records, writer,
                                Action(UndoOf(exec.ops[exec.k + 1])), o) IN
        /\ records' = a.records
        /\ writer' = a.writer
        /\ lastAppend' = IF a.ok THEN "ok" ELSE "err"
        /\ failures' = IF a.ok THEN failures ELSE failures + 1
        /\ exec' = IF ~a.ok
                   THEN [exec EXCEPT !.phase = "done", !.err = "journal"]
                   ELSE [exec EXCEPT !.k = @ + 1, !.phase = "commit"]
    /\ UNCHANGED <<opvars, pvars>>
    /\ UNCHANGED <<session, iter, fs, call, ret, base, fsBase, yielded, nones, prev>>

\* journal.append(Action(finish.rollback())) after a successful finish; a
\* journal error ends the session.
ExecRecord ==
    /\ exec.phase = "record"
    /\ \E o \in Outcomes :
        LET a == Journal_append(records, writer,
                                Action(UndoOf(exec.ops[exec.k + 1])), o) IN
        /\ records' = a.records
        /\ writer' = a.writer
        /\ lastAppend' = IF a.ok THEN "ok" ELSE "err"
        /\ failures' = IF a.ok THEN failures ELSE failures + 1
        /\ exec' = IF ~a.ok
                   THEN [exec EXCEPT !.phase = "done", !.err = "journal"]
                   ELSE [exec EXCEPT !.k = @ + 1,
                            !.phase = IF exec.k + 1 = Len(exec.ops)
                                      THEN "commit" ELSE "ops"]
    /\ UNCHANGED <<opvars, pvars>>
    /\ UNCHANGED <<session, iter, fs, call, ret, base, fsBase, yielded, nones, prev>>

\* journal.append(Commit) after all ops of the action.
ExecCommit ==
    /\ exec.phase = "commit"
    /\ \E o \in Outcomes :
        LET a == Journal_append(records, writer, COMMIT, o) IN
        /\ records' = a.records
        /\ writer' = a.writer
        /\ lastAppend' = IF a.ok THEN "ok" ELSE "err"
        /\ failures' = IF a.ok THEN failures ELSE failures + 1
        /\ exec' = IF ~a.ok
                   THEN [exec EXCEPT !.phase = "done", !.err = "journal"]
                   ELSE [exec EXCEPT !.phase = "idle",
                                     !.done = Append(@, exec.ops)]
    /\ UNCHANGED <<opvars, pvars>>
    /\ UNCHANGED <<session, iter, fs, call, ret, base, fsBase, yielded, nones, prev>>

\* rollback.next() of the unwind after a failed op: None ends it, Some(Ok(op))
\* hands an op to execute, Some(Err) ends it as a double fault.
ExecRollbackNext ==
    /\ exec.phase = "rollback"
    /\ \E o \in Outcomes :
        LET n == RollbackIter_next(iter, records, writer, o) IN
        /\ iter' = n.it
        /\ records' = n.records
        /\ writer' = n.writer
        /\ ret' = n.ret
        /\ lastAppend' = n.append
        /\ yielded' = IF n.ret.kind = "Ok" THEN Append(yielded, n.ret.data)
                      ELSE yielded
        /\ failures' = IF n.append = "err" THEN failures + 1 ELSE failures
        /\ exec' = [exec EXCEPT !.phase = IF n.ret.kind = "Ok" THEN "apply"
                                          ELSE "done"]
    /\ UNCHANGED <<opvars, pvars>>
    /\ UNCHANGED <<session, fs, call, base, fsBase, nones, prev>>

\* The executor executes the op that the rollback yielded.
ExecApply ==
    /\ exec.phase = "apply"
    /\ fs' = Datum_finish(ret.data, fs)
    /\ exec' = [exec EXCEPT !.phase = "rollback"]
    /\ UNCHANGED <<opvars, pvars>>
    /\ UNCHANGED <<records, writer, session, iter, call, ret, lastAppend, base,
                   fsBase, yielded, nones, failures, prev>>

ExecNext ==
    \/ ExecResolve
    \/ ExecFinish
    \/ ExecRecord
    \/ ExecCommit
    \/ ExecRollbackNext
    \/ ExecApply

ExecSpec == ExecInit /\ [][ExecNext]_vars

(* ---------------------------------------------------------- running ops *)
\* An op list is made for the filesystem in tree, its ops are finished left
\* to right, and the undo ops they gave are then finished latest first.

NoStep == [kind |-> "none"]

\* A run of the list ops made on S: todo is what is left of ops, undo the undo
\* ops of the finished ops, latest first, each with its op and the filesystem
\* the op ran on.
ListRun(from, res, ops, S) ==
    [pc |-> IF res.res \in {"Skip", "Err"} THEN "skipped" ELSE "run",
     from |-> from, res |-> res.res, why |-> res.why,
     ops |-> ops, todo |-> ops, undo |-> <<>>, S0 |-> S, step |-> NoStep]

\* The ops that are run on their own.
SingleOps ==
    {LinkOp(SrcPath, p) : p \in Path} \cup {MkdirOp(p) : p \in Path}
        \cup {RmOp(p, d) : p \in Path, d \in BOOLEAN}
        \cup {CreateOp(p) : p \in Path}
        \cup {WriteOp(p, c) : p \in Path, c \in String}

OpInit ==
    /\ records = <<>>
    /\ writer = <<>>
    /\ session = "idle"
    /\ iter = NoIter
    /\ fs = 0
    /\ call = "new"
    /\ ret = RetUnit
    /\ lastAppend = "none"
    /\ base = <<>>
    /\ fsBase = 0
    /\ yielded = <<>>
    /\ nones = 0
    /\ failures = 0
    /\ prev = NoPrev
    /\ exec = NoExec
    /\ tree \in FsState
    /\ oprun = NoRun
    /\ FrontIdle

\* action.resolve() of a LinkAction on the filesystem as it is.
OpResolve ==
    /\ oprun.pc = "none"
    /\ \E a \in LinkAction :
         LET r == LinkAction_resolve(a, tree)
         IN  oprun' = [action |-> a] @@ ListRun("link", r, r.ops, tree)
    /\ UNCHANGED tree
    /\ UNCHANGED <<jvars, pvars>>

\* action.resolve() of a MkdirAction on the filesystem as it is.
OpResolveMkdir ==
    /\ oprun.pc = "none"
    /\ \E a \in MkdirAction :
         LET r == MkdirAction_resolve(a, tree)
         IN  oprun' = [action |-> a] @@ ListRun("mkdir", r, r.ops, tree)
    /\ UNCHANGED tree
    /\ UNCHANGED <<jvars, pvars>>

\* action.resolve() of a WriteAction on the filesystem as it is.
OpResolveWrite ==
    /\ oprun.pc = "none"
    /\ \E a \in WriteAction :
         LET r == WriteAction_resolve(a, tree)
         IN  oprun' = [action |-> a] @@ ListRun("write", r, r.ops, tree)
    /\ UNCHANGED tree
    /\ UNCHANGED <<jvars, pvars>>

\* mkdir_parents_ops(path) on the filesystem as it is.
OpMkdirParents ==
    /\ oprun.pc = "none"
    /\ \E p \in Path :
         LET ops == mkdir_parents_ops(tree, p)
         IN  oprun' = [action |-> [path |-> p]]
                          @@ ListRun("mkdir_parents", Res_Normal(ops), ops, tree)
    /\ UNCHANGED tree
    /\ UNCHANGED <<jvars, pvars>>

\* One op on its own, whatever the filesystem is.
OpSingle ==
    /\ oprun.pc = "none"
    /\ \E o \in SingleOps :
         oprun' = ListRun("single", Res_Normal(<<o>>), <<o>>, tree)
    /\ UNCHANGED tree
    /\ UNCHANGED <<jvars, pvars>>

\* op.finish() of the next op of the list, then finish.rollback() for the
\* undo op: a failed finish ends the run, and so does a rollback() that
\* panics.
OpFinish ==
    /\ oprun.pc = "run"
    /\ oprun.todo # <<>>
    /\ Runnable(Head(oprun.todo))
    /\ LET o == Head(oprun.todo)
           r == Op_finish(o, tree)
           panics == r.ok /\ r.undo.op = "Panic"
       IN  /\ tree' = r.tree
           /\ oprun' = [oprun EXCEPT
                  !.pc = IF ~r.ok THEN "failed"
                         ELSE IF panics THEN "panicked" ELSE "run",
                  !.todo = IF r.ok THEN Tail(@) ELSE @,
                  !.undo = IF r.ok /\ ~panics
                           THEN <<[u |-> r.undo, o |-> o, pre |-> tree]>> \o @
                           ELSE @,
                  !.step = [kind |-> "finish", ok |-> r.ok, o |-> o,
                            pre |-> tree, undo |-> r.undo]]
    /\ UNCHANGED <<jvars, pvars>>

\* Once the whole list is finished, the action is resolved again on the
\* filesystem the ops have left.
OpResolveAgain ==
    /\ oprun.pc \in {"run", "panicked"}
    /\ oprun.todo = <<>>
    /\ oprun.step.kind = "finish"
    /\ oprun.from \in {"link", "mkdir", "write"}
    /\ LET r == IF oprun.from = "link" THEN LinkAction_resolve(oprun.action, tree)
                ELSE IF oprun.from = "mkdir" THEN MkdirAction_resolve(oprun.action, tree)
                ELSE WriteAction_resolve(oprun.action, tree)
       IN  oprun' = [again |-> r] @@ [oprun EXCEPT !.pc = "resolved_again"]
    /\ UNCHANGED tree
    /\ UNCHANGED <<jvars, pvars>>

\* Once the whole list is finished, the undo ops are finished latest first.
OpUndo ==
    /\ \/ oprun.pc = "run" /\ oprun.todo = <<>>
       \/ oprun.pc = "undo"
    /\ oprun.undo # <<>>
    /\ LET e == Head(oprun.undo)
           r == Op_finish(e.u, tree)
       IN  /\ tree' = r.tree
           /\ oprun' = [oprun EXCEPT
                  !.pc = IF ~r.ok THEN "undo_failed"
                         ELSE IF Len(oprun.undo) = 1 THEN "unwound" ELSE "undo",
                  !.undo = IF r.ok THEN Tail(@) ELSE @,
                  !.step = [kind |-> "undo", ok |-> r.ok, o |-> e.o,
                            pre |-> e.pre, undo |-> r.undo]]
    /\ UNCHANGED <<jvars, pvars>>

OpNext ==
    \/ OpResolve
    \/ OpResolveMkdir
    \/ OpResolveWrite
    \/ OpMkdirParents
    \/ OpSingle
    \/ OpFinish
    \/ OpResolveAgain
    \/ OpUndo

OpSpec == OpInit /\ [][OpNext]_vars

(* ------------------------------------------------- loading and streaming *)
\* SpecLoader::new(path) for a package directory with or without a
\* package.lua, run from the package root or from another directory.
PkgInit ==
    /\ records = <<>>
    /\ writer = <<>>
    /\ session = "idle"
    /\ iter = NoIter
    /\ fs = 0
    /\ call = "new"
    /\ ret = RetUnit
    /\ lastAppend = "none"
    /\ base = <<>>
    /\ fsBase = 0
    /\ yielded = <<>>
    /\ nones = 0
    /\ failures = 0
    /\ prev = NoPrev
    /\ exec = NoExec
    /\ tree = NoTree
    /\ oprun = NoRun
    /\ cwd \in {WorkDir, PackageRoot}
    /\ disk \in [exists : {{}, {fse_clean(Path_join(PackageRoot, p)) :
                                    p \in {RelA, RelUpA, AbsE}}},
                  config : Scripts \cup {NoScript}]
    /\ loader = SpecLoaderEmpty_new(PackageRoot)
    /\ pkg = NoPkg
    /\ aiter = NoActionIter
    /\ piter = NoPackageIter

\* loader.read()
LoaderRead ==
    /\ loader.state = "empty"
    /\ loader' = SpecLoaderEmpty_read(loader, disk.config)
    /\ UNCHANGED <<cwd, disk, pkg, aiter, piter>>
    /\ UNCHANGED <<jvars, opvars>>

\* loader.eval()
LoaderEval ==
    /\ loader.state = "read"
    /\ LET e == SpecLoaderRead_eval(loader, cwd) IN
        /\ loader' = [cwd0 |-> cwd] @@ e.loader
        /\ cwd' = e.cwd
    /\ UNCHANGED <<disk, pkg, aiter, piter>>
    /\ UNCHANGED <<jvars, opvars>>

\* loader.to_package_data()
LoaderToPackageData ==
    /\ loader.state = "evaled"
    /\ pkg' = to_package_data(loader)
    /\ loader' = [loader EXCEPT !.state = "finished"]
    /\ UNCHANGED <<cwd, disk, aiter, piter>>
    /\ UNCHANGED <<jvars, opvars>>

\* let actions = data.action_iter(dest): the first time, or again after the
\* stream before it has returned None.  first is what the first stream
\* yielded.
NewActionIter ==
    /\ pkg # NoPkg
    /\ piter = NoPackageIter
    /\ \/ aiter = NoActionIter
       \/ aiter.pc = "live" /\ aiter.pass = 1 /\ aiter.nones >= 1
    /\ \E dest \in DestRoot :
        aiter' = [pc |-> "live", it |-> action_iter(pkg, dest),
                  pass |-> IF aiter.pc = "live" THEN 2 ELSE 1,
                  first |-> IF aiter.pc = "live" THEN aiter.out ELSE <<>>,
                  out |-> <<>>, nones |-> 0, ret |-> "new"]
    /\ UNCHANGED <<cwd, disk, loader, pkg, piter>>
    /\ UNCHANGED <<jvars, opvars>>

\* actions.next()
ActionIterNext ==
    /\ aiter.pc = "live"
    /\ aiter.nones < MaxNones
    /\ LET n == ActionIter_next(aiter.it, pkg.directives) IN
        aiter' = IF ~n.some
                 THEN [aiter EXCEPT !.it = n.it, !.nones = @ + 1, !.ret = "None"]
                 ELSE IF n.item = Action_Panic
                 THEN [aiter EXCEPT !.pc = "panicked", !.it = n.it, !.ret = "Panic"]
                 ELSE [aiter EXCEPT !.it = n.it, !.out = Append(@, n.item),
                                    !.ret = "Some"]
    /\ UNCHANGED <<cwd, disk, loader, pkg, piter>>
    /\ UNCHANGED <<jvars, opvars>>

\* Linker::new(dest), then link_one for the package; the File of the spec
\* as the linker has it has no Dir.
NewPackageIter ==
    /\ pkg # NoPkg
    /\ aiter = NoActionIter
    /\ piter = NoPackageIter
    /\ \A i \in 1..Len(pkg.directives) : pkg.directives[i].kind # "Dir"
    /\ \E dest \in DestRoot :
        piter' = [pc |-> "live",
                  it |-> link_one(Linker_new(dest).dest, pkg.lua, pkg.path,
                                  pkg.directives),
                  out |-> <<>>, nones |-> 0, ret |-> "new"]
    /\ UNCHANGED <<cwd, disk, loader, pkg, aiter>>
    /\ UNCHANGED <<jvars, opvars>>

\* actions.next() on the linker's stream; render is what
\* templating::hbs::render returns if it is called.
PackageIterNext ==
    /\ piter.pc = "live"
    /\ piter.nones < MaxNones
    /\ \E render \in {"x", "err"} :
        LET n == PackageIter_next(piter.it, disk.exists, render) IN
        piter' = IF n.kind = "None"
                 THEN [piter EXCEPT !.it = n.it, !.nones = @ + 1, !.ret = "None"]
                 ELSE IF n.kind = "Panic"
                 THEN [piter EXCEPT !.pc = "panicked", !.it = n.it, !.ret = "Panic"]
                 ELSE [piter EXCEPT !.it = n.it, !.out = Append(@, n.item),
                                    !.ret = "Some"]
    /\ UNCHANGED <<cwd, disk, loader, pkg, aiter>>
    /\ UNCHANGED <<jvars, opvars>>

PkgNext ==
    \/ LoaderRead
    \/ LoaderEval
    \/ LoaderToPackageData
    \/ NewActionIter
    \/ ActionIterNext
    \/ NewPackageIter
    \/ PackageIterNext

PkgSpec == PkgInit /\ [][PkgNext]_vars

(* --------------------------------------------------------------- claims *)
\* The state right after the live iterator's first None.
AtFirstNone == session # "idle" /\ nones = 1 /\ call = "next" /\ ret = RetNone

Committed(recs) == recs = <<>> \/ recs[Len(recs)] = COMMIT

\* C1: a rollback() session on a journal whose trailing uncommitted run is
\* a1..ak (k >= 1) has, before its first None, yielded a prefix of
\* rollback(ak), ..., rollback(a1) and appended exactly the Action records of
\* what it yielded; at its first None it has yielded all of them and appended
\* them followed by exactly one Commit.
C1_RollbackUndoesTrailingRun ==
    (session = "rollback" /\ TrailingRun(base) # <<>>) =>
        /\ nones = 0 =>
            /\ IsPrefix(yielded, InverseData(TrailingRun(base)))
            /\ records = base \o ActionsOf(yielded)
        /\ AtFirstNone =>
            /\ yielded = InverseData(TrailingRun(base))
            /\ records = base \o ActionsOf(yielded) \o <<COMMIT>>

\* C1 on the runs in which no append has failed.
C1_RollbackUndoesTrailingRun_NoWriterError ==
    failures = 0 => C1_RollbackUndoesTrailingRun

\* C2: the first next() on a rollback() iterator of a journal that is empty or
\* ends in Commit returns None and changes neither the records nor the
\* writer's bytes.
C2_RollbackOfCommittedIsNoOp ==
    [][(/\ session = "rollback"
        /\ call = "rollback"
        /\ Committed(records)
        /\ call' = "next")
       => (ret' = RetNone /\ records' = records /\ writer' = writer)]_vars

C2_Witness ==
    /\ session = "rollback" /\ call = "next" /\ ret = RetNone
    /\ records = <<FORWARD, COMMIT>> /\ base = records
    /\ writer = mk_expected(records)

\* C3: once an iterator that appended an inverse has returned None, every
\* later next() on it returns None and appends nothing.
C3_NoneIsFinal ==
    [][(session # "idle" /\ nones >= 1 /\ iter.appended /\ call' = "next"
        /\ vars' # vars)
       => (ret' = RetNone /\ records' = records)]_vars

\* C4: rollback_last() returns Some exactly when the journal is non-empty and
\* its latest record is Commit; when it returns None the journal is unchanged.
C4_RollbackLastIffCommit ==
    [][call' = "rollback_last" =>
        /\ ret'.kind \in {"Some", "None"}
        /\ ret'.kind = "Some" <=>
              (records # <<>> /\ records[Len(records)] = COMMIT)
        /\ ret'.kind = "Some" <=> session' = "rollback_last"
        /\ records' = records /\ writer' = writer]_vars

C4_WitnessSome ==
    /\ call = "rollback_last" /\ ret.kind = "Some"
    /\ records = <<FORWARD, COMMIT>>

C4_WitnessNone ==
    /\ call = "rollback_last" /\ ret.kind = "None" /\ session = "idle"
    /\ records = <<FORWARD>>

C4_Witness == C4_WitnessSome \/ C4_WitnessNone

\* C5: at the first None of a rollback_last() session on a journal whose
\* last transaction is a1..ak, the session has yielded exactly rollback(ak),
\* ..., rollback(a1) and appended their Action records and one Commit, or
\* nothing at all when k = 0.
C5_RollbackLastUndoesOneTransaction ==
    (session = "rollback_last" /\ AtFirstNone) =>
        LET run == SessionRun("rollback_last", base) IN
        /\ yielded = InverseData(run)
        /\ records = IF run = <<>> THEN base
                     ELSE base \o ActionsOf(yielded) \o <<COMMIT>>

\* C5 on the runs in which no append has failed.
C5_RollbackLastUndoesOneTransaction_NoWriterError ==
    failures = 0 => C5_RollbackLastUndoesOneTransaction

\* C6: when a session that undid the run a1..ak and appended its Commit is
\* followed by a rollback_last() session, that session has at its first None
\* yielded exactly a1..ak.
C6_RollbackOfRollbackIsRedo ==
    (session = "rollback_last" /\ prev.valid /\ prev.undone /\ AtFirstNone)
        => yielded = DataOf(prev.run)

\* C6 on the runs in which no append has failed.
C6_RollbackOfRollbackIsRedo_NoWriterError ==
    failures = 0 => C6_RollbackOfRollbackIsRedo

\* C6 for an undone run that was a committed transaction, on the runs in
\* which no append has failed.
C6_RedoOfCommitted_NoWriterError ==
    (failures = 0 /\ prev.mode = "rollback_last") => C6_RollbackOfRollbackIsRedo

\* C7 (as stated): after two successive rollback() sessions, each driven to
\* its first None with the yielded ops executed, the filesystem is in the
\* state it had before the first.
C7_TwoRollbacksRestore ==
    (session = "rollback" /\ prev.valid /\ prev.mode = "rollback" /\ AtFirstNone)
        => fs = prev.fs0

\* C7 (amended): when a rollback() session driven to its first None has left
\* the journal empty or ending in Commit, the rollback() session that follows
\* it returns None at once, yields no op and appends nothing, so the
\* filesystem stays as the first session left it; it is the state from before
\* the first session if that session yielded no op.
C7_SecondRollbackIsNoOp ==
    (/\ session = "rollback" /\ prev.valid /\ prev.mode = "rollback"
     /\ Committed(base) /\ call = "next")
        => /\ ret = RetNone
           /\ yielded = <<>>
           /\ records = base
           /\ fs = fsBase
           /\ prev.nyield = 0 => fs = prev.fs0

C7_Witness ==
    /\ session = "rollback" /\ prev.valid /\ prev.mode = "rollback"
    /\ prev.nyield = 2 /\ call = "next" /\ ret = RetNone
    /\ base = <<COMMIT, FORWARD, FORWARD, BACKWARD, BACKWARD, COMMIT>>
    /\ fs # prev.fs0

\* C8: an append on which the writer fails leaves the record vector as it
\* was and returns an error; inside next() the call returns Some(Err).
C8_FailedAppendKeepsRecords ==
    [][failures' # failures =>
        /\ records' = records
        /\ ret' = RetErr
        /\ lastAppend' = "err"
        /\ call' \in {"append", "next"}]_vars

C8_Witness ==
    /\ call = "next" /\ ret = RetErr /\ failures = 1
    /\ yielded = <<"Backward">> /\ records = <<FORWARD, FORWARD, BACKWARD>>

C10_AppendOnly == [][IsPrefix(records, records')]_vars

C10_Witness ==
    /\ session = "rollback_last" /\ call = "next" /\ failures = 1
    /\ Len(records) > Len(base) /\ IsPrefix(base, records)

\* C11: when a rollback() session over an uncommitted run a1..ak is dropped
\* after it appended j >= 1 inverses and no Commit, the next rollback()
\* session has at its first None, every yielded op executed, brought the
\* filesystem to the state from before a1 and left Commit as the latest
\* record.
C11_FreshRollbackCompletesUnwind ==
    (session = "rollback" /\ prev.mode = "abandoned" /\ AtFirstNone) =>
        /\ fs = prev.fs0
        /\ records # <<>> /\ records[Len(records)] = COMMIT

\* C11 on the runs in which no append has failed.
C11_FreshRollbackCompletesUnwind_NoWriterError ==
    failures = 0 => C11_FreshRollbackCompletesUnwind

C11_Reached ==
    /\ session = "rollback" /\ prev.mode = "abandoned" /\ AtFirstNone
    /\ failures = 0 /\ base = <<FORWARD, FORWARD, BACKWARD>>

\* The records of the committed actions: one Action record per op, in the
\* order of the ops, and a Commit after each action.
RECURSIVE CommittedLog(_)
CommittedLog(done) ==
    IF done = <<>> THEN <<>>
    ELSE UndoRecords(Head(done)) \o <<COMMIT>> \o CommittedLog(Tail(done))

\* What forward execution has journalled: the committed actions and the
\* records of the current action so far.
ForwardLog ==
    CommittedLog(exec.done)
        \o (IF exec.phase = "idle" THEN <<>>
            ELSE UndoRecords(SubSeq(exec.ops, 1, exec.k)))

\* C12: the executor is about to append Commit only when every op of the
\* action has finished and has its record in the journal; the journal is, up
\* to the records a rollback appended, one Action record per op of each
\* committed action in the order of the ops, each action followed by one
\* Commit, and then the records of the current action so far.
C12_CommitAfterAllOps ==
    /\ exec.phase = "commit" =>
        /\ exec.applied = Len(exec.ops)
        /\ exec.k = Len(exec.ops)
        /\ records = exec.baseAct \o UndoRecords(exec.ops)
    /\ IF exec.err = "op" THEN IsPrefix(ForwardLog, records)
       ELSE records = ForwardLog

C12_Witness ==
    /\ exec.phase = "idle"
    /\ exec.done = <<<<"Backward", "Forward">>, <<"Forward", "Forward", "Forward">>>>
    /\ records = <<FORWARD, BACKWARD, COMMIT, BACKWARD, BACKWARD, BACKWARD, COMMIT>>

\* The executor has surfaced an op error after journal.rollback() ran to its
\* None.
UnwindDone == exec.phase = "done" /\ exec.err = "op" /\ ret = RetNone

\* undo(o(j-1)), ..., undo(o1) for the ops o1..o(j-1) that succeeded.
UndoList(ops, n) == [i \in 1..n |-> UndoOf(ops[n + 1 - i])]

\* C13: when op j of an action has failed after j-1 ops of it succeeded and
\* the rollback has run to its None, no later op of the action was executed,
\* the rollback yielded undo(o(j-1)), ..., undo(o1) in that order, the
\* filesystem is as it was before the action, and the op error is surfaced.
C13_FailedOpUnwindsAction ==
    UnwindDone =>
        /\ exec.applied = exec.k
        /\ exec.k < Len(exec.ops)
        /\ yielded = UndoList(exec.ops, exec.k)
        /\ fs = exec.fsAct

\* An unwind that ran to its None met no append error: a journal error ends
\* the session at once.
UnwindDoneWithoutWriterError == UnwindDone => failures = 0

\* What the executor's rollback does instead: it yields the succeeded ops
\* themselves, latest first, and the filesystem has their effect twice.
C13_UnwindReappliesOps ==
    UnwindDone =>
        /\ yielded = [i \in 1..exec.k |-> exec.ops[exec.k + 1 - i]]
        /\ fs = FinishAll(yielded, FinishAll(SubSeq(exec.ops, 1, exec.k), exec.fsAct))
        /\ records = exec.baseAct \o UndoRecords(SubSeq(exec.ops, 1, exec.k))
                        \o (IF exec.k = 0 THEN <<>>
                            ELSE ActionsOf(yielded) \o <<COMMIT>>)

\* The number of ops in a sequence of op lists.
RECURSIVE CountOps(_)
CountOps(done) == IF done = <<>> THEN 0 ELSE Len(Head(done)) + CountOps(Tail(done))

\* Three actions with 6 ops in all were to run, ops 1-4 succeeded, op 5
\* failed and the rollback has run to its None.
RollbackPartial ==
    /\ UnwindDone
    /\ exec.nact = 3
    /\ Len(exec.done) = 2
    /\ CountOps(exec.done) + Len(exec.ops) = 6
    /\ CountOps(exec.done) + exec.k = 4

C14_WitnessSome ==
    /\ RollbackPartial /\ exec.k = 1 /\ Len(yielded) = 1
    /\ CountOps(exec.done) = 3

C14_WitnessNone ==
    /\ RollbackPartial /\ exec.k = 0 /\ yielded = <<>>
    /\ CountOps(exec.done) = 4 /\ fs # exec.fs0

RunActions ==
    SelectSeq(SubSeq(records, Len(exec.baseAct) + 1, Len(records)),
              LAMBDA r : r.tag = "Action")

\* The ops that the rollback yielded and the executor has executed.
Unwound ==
    SubSeq(yielded, 1, Len(yielded) - (IF exec.phase = "apply" THEN 1 ELSE 0))

\* The records of the ops executed since the current action began: the ops
\* of the action that finished, then the yielded ops that were executed.
ExecutedRecords ==
    UndoRecords(SubSeq(exec.ops, 1, exec.applied)) \o ActionsOf(Unwound)

\* C15 (as stated): at every point the Action records of the current run are
\* the records of the ops executed so far, in order, or of all of them but
\* the latest.
C15_RecordOnlyAfterSuccess ==
    \/ RunActions = ExecutedRecords
    \/ /\ ExecutedRecords # <<>>
       /\ RunActions = Front(ExecutedRecords)

\* C15 (amended): while the executor runs the ops of an action, the Action
\* records of the current run are the records of the ops that finished, in
\* order, or of all of them but the latest.  In the rollback it is the
\* other way round: next() appends the record of the op it yields before the
\* executor executes that op, so the journal is one record ahead of the
\* filesystem until the op has been executed.
C15_RecordAfterSuccessForwardOnly ==
    /\ exec.err # "op" =>
        /\ exec.applied \in {exec.k, exec.k + 1}
        /\ RunActions = UndoRecords(SubSeq(exec.ops, 1, exec.k))
        /\ C15_RecordOnlyAfterSuccess
    /\ exec.phase = "apply" =>
        /\ ret.kind = "Ok"
        /\ records[Len(records)] = Action(ret.data)
        /\ RunActions = ExecutedRecords \o <<Action(ret.data)>>
    /\ exec.phase = "rollback" => RunActions = ExecutedRecords

C15_WitnessForward ==
    /\ exec.phase = "record" /\ exec.k = 1 /\ exec.applied = 2
    /\ Len(exec.done) = 1

C15_WitnessRollback ==
    /\ exec.phase = "apply" /\ exec.k = 2 /\ Len(yielded) = 2

C15_Witness == C15_WitnessForward \/ C15_WitnessRollback

\* C16: an action whose resolution is an error or a Skip has no ops, none is
\* executed for it, and journal, writer and filesystem stay as they were
\* when it was taken from the stream; the error ends the session.
C16_SkipOrErrLeavesJournal ==
    exec.res \in {"Skip", "Err"} =>
        /\ exec.ops = <<>>
        /\ exec.applied = 0
        /\ exec.phase = (IF exec.res = "Err" THEN "done" ELSE "idle")
        /\ exec.res = "Err" <=> exec.err = "resolve"
        /\ records = exec.baseAct
        /\ failures = 0 => writer = mk_expected(exec.baseAct)
        /\ fs = exec.fsAct

C16_WitnessSkip ==
    /\ exec.res = "Skip" /\ exec.nact = 2 /\ Len(exec.done) = 1
    /\ records = <<FORWARD, BACKWARD, COMMIT>>

C16_WitnessErr ==
    /\ exec.res = "Err" /\ exec.nact = 2 /\ Len(exec.done) = 1
    /\ records = <<BACKWARD, COMMIT>>

C16_Witness == C16_WitnessSkip \/ C16_WitnessErr

\* The paths an op touches: its path, or the dest of a Link or Copy, and all
\* below.
Touched(o) ==
    {p \in Path : Below(IF o.op \in {"Link", "Copy"} THEN o.dest ELSE o.path, p)}

\* An op has just finished successfully.
JustFinished ==
    oprun.pc # "none" /\ oprun.step.kind = "finish" /\ oprun.step.ok

\* C17: inversion (L2): when an op has finished successfully on S giving S',
\* finishing its undo op on S' succeeds and gives a filesystem equal to S on
\* every path the op touched, what the op removed included.
C17_Inversion ==
    JustFinished =>
        LET r == Op_finish(oprun.step.undo, tree)
        IN  /\ r.ok
            /\ \A p \in Touched(oprun.step.o) : r.tree[p] = oprun.step.pre[p]

\* Inversion holds of every op but Link.
C17_InversionButLink ==
    (JustFinished /\ oprun.step.o.op # "Link") =>
        LET r == Op_finish(oprun.step.undo, tree)
        IN  /\ r.ok
            /\ \A p \in Touched(oprun.step.o) : r.tree[p] = oprun.step.pre[p]

\* Every op of a list a resolver made has finished successfully.
AllFinished ==
    /\ oprun.pc \in {"run", "panicked", "undo", "undo_failed", "unwound"}
    /\ oprun.from \in {"link", "mkdir_parents"}
    /\ oprun.todo = <<>>

\* C18: composition (L3): when every op of a list a resolver made has
\* finished, left to right, the undo ops can be finished latest first, and
\* once they all are the filesystem is what it was before the first op.
C18_Composition ==
    AllFinished =>
        /\ oprun.pc \notin {"panicked", "undo_failed"}
        /\ oprun.pc = "unwound" => tree = oprun.S0

\* Composition holds of the lists that have no Link in them.
C18_CompositionWithoutLink ==
    (AllFinished /\ oprun.from = "mkdir_parents") =>
        /\ oprun.pc \notin {"panicked", "undo_failed"}
        /\ oprun.pc = "unwound" => tree = oprun.S0

\* C19: rollback is an involution on ops: rollback() gives an undo op for
\* every op that finished, and the undo of that undo op is the op again.
C19_RollbackInvolution ==
    (oprun.pc # "none" /\ oprun.step.kind # "none" /\ oprun.step.ok) =>
        /\ oprun.step.undo.op # "Panic"
        /\ oprun.step.kind = "undo" => oprun.step.undo = oprun.step.o

\* The undo of the undo is the op again, wherever there is an undo.
C19_UndoOfUndoIsOp ==
    (oprun.pc # "none" /\ oprun.step.kind = "undo" /\ oprun.step.ok) =>
        oprun.step.undo = oprun.step.o

\* C20: LinkAction::resolve gives Skip(SameSrcDest) whenever src == dest,
\* whatever the filesystem, copy and optional are.
C20_SameSrcDestSkips ==
    (oprun.pc # "none" /\ oprun.from = "link"
        /\ oprun.action.src = oprun.action.dest) =>
        oprun.pc = "skipped" /\ oprun.res = "Skip" /\ oprun.why = "SameSrcDest"

\* src == dest, src does not exist and the action is not optional.
C20_Witness ==
    /\ oprun.pc # "none"
    /\ oprun.from = "link"
    /\ oprun.action.src = oprun.action.dest
    /\ ~symlink_exists(tree, oprun.action.src)
    /\ ~oprun.action.optional
    /\ oprun.res = "Skip"
    /\ oprun.why = "SameSrcDest"

\* An action of the kind from has been resolved: oprun holds the action,
\* the filesystem S0 it was resolved on and the resolution.
Resolved(from) == oprun.pc # "none" /\ oprun.from = from

\* The resolution is a Skip, or an error, with the reason why.
Gives(res, why) == oprun.res = res /\ oprun.why = why /\ oprun.ops = <<>>

\* The proper ancestors of p below the root, root-first.
Ancestors(p) == [i \in 1..(Len(p) - 1) |-> SubSeq(p, 1, i)]

\* One Mkdir for each ancestor of p that does not exist on S, root-first.
MissingAncestorMkdirs(S, p) ==
    LET missing == SelectSeq(Ancestors(p), LAMBDA q : ~symlink_exists(S, q))
    IN  [i \in 1..Len(missing) |-> MkdirOp(missing[i])]

\* A LinkAction with src != dest has been resolved.
ResolvedLink ==
    Resolved("link") /\ oprun.action.src # oprun.action.dest

\* C21: for a LinkAction with src != dest whose src does not exist (not
\* following links), resolve gives Skip(OptMissing) when optional is true and
\* Err(SrcMissing) when it is false, whatever dest is and whatever copy is.
C21_SrcMissing ==
    (ResolvedLink /\ ~symlink_exists(oprun.S0, oprun.action.src)) =>
        IF oprun.action.optional THEN Gives("Skip", "OptMissing")
        ELSE Gives("Err", "SrcMissing")

\* src is missing, dest exists and copy is true, optional or not.
C21_WitnessSkip ==
    /\ ResolvedLink /\ ~symlink_exists(oprun.S0, oprun.action.src)
    /\ symlink_exists(oprun.S0, oprun.action.dest)
    /\ oprun.action.copy /\ oprun.action.optional
    /\ Gives("Skip", "OptMissing")

C21_WitnessErr ==
    /\ ResolvedLink /\ ~symlink_exists(oprun.S0, oprun.action.src)
    /\ symlink_exists(oprun.S0, oprun.action.dest)
    /\ oprun.action.copy /\ ~oprun.action.optional
    /\ Gives("Err", "SrcMissing")

C21_Witness == C21_WitnessSkip \/ C21_WitnessErr

\* The link branch: copy is false, src exists and src != dest.
LinkBranch ==
    /\ ResolvedLink /\ ~oprun.action.copy
    /\ symlink_exists(oprun.S0, oprun.action.src)

\* C22: the link branch is decided by the symlink metadata of dest: a symlink
\* to src gives Skip(DestExists); any other symlink, a directory or a file
\* gives Overwrite([Rm{dest,dir}, Link]) with dir true for a directory only;
\* an absent dest gives Normal of the Mkdirs of the missing ancestors of dest,
\* root-first, then Link. Link is always the last op.
C22_LinkBranch ==
    LinkBranch =>
        LET src == oprun.action.src
            dest == oprun.action.dest
            n == Lookup(oprun.S0, dest)
            link == LinkOp(src, dest)
        IN  /\ n.kind = "symlink" /\ n.target = src => Gives("Skip", "DestExists")
            /\ n.kind = "symlink" /\ n.target # src =>
                   oprun.res = "Overwrite" /\ oprun.ops = <<RmOp(dest, FALSE), link>>
            /\ n.kind = "dir" =>
                   oprun.res = "Overwrite" /\ oprun.ops = <<RmOp(dest, TRUE), link>>
            /\ n.kind = "file" =>
                   oprun.res = "Overwrite" /\ oprun.ops = <<RmOp(dest, FALSE), link>>
            /\ n.kind = "absent" =>
                   /\ oprun.res = "Normal"
                   /\ oprun.ops = MissingAncestorMkdirs(oprun.S0, dest) \o <<link>>
            /\ oprun.ops # <<>> => oprun.ops[Len(oprun.ops)] = link

\* dest is a directory and is removed as one.
C22_WitnessDir ==
    /\ LinkBranch /\ Lookup(oprun.S0, oprun.action.dest).kind = "dir"
    /\ oprun.res = "Overwrite" /\ oprun.ops[1].dir

\* dest is absent and two of its ancestors are missing.
C22_WitnessNormal ==
    /\ LinkBranch /\ oprun.res = "Normal" /\ Len(oprun.ops) = 3
    /\ oprun.ops[1] = MkdirOp(Chain(1)) /\ oprun.ops[2] = MkdirOp(Chain(2))

\* dest is a symlink to src.
C22_WitnessSkip ==
    /\ LinkBranch /\ Gives("Skip", "DestExists")

C22_Witness == C22_WitnessDir \/ C22_WitnessNormal \/ C22_WitnessSkip

\* The bytes read at p, following symlinks; none for anything but a file.
RECURSIVE Bytes(_, _, _)
Bytes(S, p, hops) ==
    LET n == Lookup(S, p) IN
    IF n.kind = "file" THEN [ok |-> TRUE, s |-> n.content]
    ELSE IF n.kind = "symlink" /\ hops > 0 THEN Bytes(S, n.target, hops - 1)
    ELSE [ok |-> FALSE, s |-> "-"]

\* The contents of p and q are byte-equal.
ByteEqual(S, p, q) ==
    LET a == Bytes(S, p, Cardinality(Path))
        b == Bytes(S, q, Cardinality(Path))
    IN  a.ok /\ b.ok /\ a.s = b.s

\* The copy branch: copy is true, src exists and src != dest.
CopyBranch ==
    /\ ResolvedLink /\ oprun.action.copy
    /\ symlink_exists(oprun.S0, oprun.action.src)

\* What the copy branch gives when dest is not a file equal to src.
CopyShape ==
    LET src == oprun.action.src
        dest == oprun.action.dest
        n == Lookup(oprun.S0, dest)
        copy == CopyOp(src, dest, Lookup(oprun.S0, src).kind = "dir")
    IN  IF n.kind \in {"file", "dir", "symlink"}
        THEN oprun.res = "Overwrite"
             /\ oprun.ops = <<RmOp(dest, n.kind = "dir"), copy>>
        ELSE oprun.res = "Normal"
             /\ oprun.ops = MissingAncestorMkdirs(oprun.S0, dest) \o <<copy>>

\* dest is a regular file whose contents are byte-equal to those of src.
DestEqualsSrc ==
    /\ Lookup(oprun.S0, oprun.action.dest).kind = "file"
    /\ ByteEqual(oprun.S0, oprun.action.src, oprun.action.dest)

\* C23: the copy branch gives Skip(DestExists) whenever dest is a regular
\* file byte-equal to src; otherwise it has the shape of the link branch with
\* Copy{src,dest,dir = src is a directory} as the last op, an existing dest
\* giving Overwrite([Rm{dest,dir = dest is a directory}, Copy]).
C23_CopyBranch ==
    CopyBranch =>
        IF DestEqualsSrc THEN Gives("Skip", "DestExists") ELSE CopyShape

\* The copy branch skips exactly when the equal contents are valid UTF-8, and
\* has the shape of the link branch otherwise.
C23_CopyBranchUtf8 ==
    CopyBranch =>
        IF DestEqualsSrc /\ Lookup(oprun.S0, oprun.action.dest).content \in String
        THEN Gives("Skip", "DestExists")
        ELSE CopyShape

\* src and dest are files holding the same bytes, not valid UTF-8.
C23_NotUtf8 ==
    /\ CopyBranch /\ DestEqualsSrc
    /\ Lookup(oprun.S0, oprun.action.dest).content \notin String

\* C24: mkdir_parents_ops(path) gives one Mkdir for exactly those proper
\* ancestors of path that do not exist, shallowest first, and none for path
\* itself or for an ancestor that exists; with nothing existing, MkdirAction
\* with parents = true on a/a/a gives Mkdir{a}, Mkdir{a/a}, Mkdir{a/a/a}.
C24_MkdirParents ==
    /\ Resolved("mkdir_parents") =>
           LET ops == oprun.ops
               path == oprun.action.path
           IN  /\ \A i \in 1..Len(ops) : ops[i].op = "Mkdir"
               /\ {ops[i].path : i \in 1..Len(ops)} =
                      {q \in {SubSeq(path, 1, k) : k \in 1..(Len(path) - 1)} :
                          ~symlink_exists(oprun.S0, q)}
               /\ \A i, j \in 1..Len(ops) :
                      i < j => Len(ops[i].path) < Len(ops[j].path)
    /\ (Resolved("mkdir") /\ oprun.action.parents /\ oprun.action.path = Chain(3)
           /\ ~symlink_exists(oprun.S0, Chain(1))) =>
           oprun.ops = <<MkdirOp(Chain(1)), MkdirOp(Chain(2)), MkdirOp(Chain(3))>>

\* Two ancestors of a/a/a are missing.
C24_WitnessParents ==
    /\ Resolved("mkdir_parents") /\ oprun.action.path = Chain(3)
    /\ oprun.ops = <<MkdirOp(Chain(1)), MkdirOp(Chain(2))>>

\* One ancestor of a/a/a exists and one is missing.
C24_WitnessOne ==
    /\ Resolved("mkdir_parents") /\ oprun.action.path = Chain(3)
    /\ symlink_exists(oprun.S0, Chain(1))
    /\ oprun.ops = <<MkdirOp(Chain(2))>>

\* MkdirAction{a/a/a, parents = true} with nothing existing.
C24_WitnessAction ==
    /\ Resolved("mkdir") /\ oprun.action.parents /\ oprun.action.path = Chain(3)
    /\ ~symlink_exists(oprun.S0, Chain(1))
    /\ Len(oprun.ops) = 3

C24_Witness == C24_WitnessParents \/ C24_WitnessOne \/ C24_WitnessAction

\* The Mkdirs of the missing ancestors of the path of a MkdirAction, if it
\* has parents set.
ParentMkdirs ==
    IF oprun.action.parents
    THEN MissingAncestorMkdirs(oprun.S0, oprun.action.path)
    ELSE <<>>

\* C25: MkdirAction::resolve gives Skip(DestExists) when path is a directory,
\* and when path is absent gives Normal of the missing-ancestor Mkdirs,
\* root-first and only if parents is true, followed by Mkdir{path}.
C25_MkdirResolve ==
    Resolved("mkdir") =>
        LET kind == Lookup(oprun.S0, oprun.action.path).kind
        IN  /\ kind = "dir" => Gives("Skip", "DestExists")
            /\ kind = "absent" =>
                   /\ oprun.res = "Normal"
                   /\ oprun.ops = ParentMkdirs \o <<MkdirOp(oprun.action.path)>>

\* path is absent under a missing parent and parents is false.
C25_WitnessNoParents ==
    /\ Resolved("mkdir") /\ ~oprun.action.parents
    /\ ~symlink_exists(oprun.S0, parent(oprun.action.path))
    /\ oprun.ops = <<MkdirOp(oprun.action.path)>>

\* path is absent under a missing parent and parents is true.
C25_WitnessParents ==
    /\ Resolved("mkdir") /\ oprun.action.parents
    /\ oprun.res = "Normal" /\ Len(oprun.ops) = 2

\* path is a directory.
C25_WitnessSkip ==
    /\ Resolved("mkdir") /\ Gives("Skip", "DestExists")

C25_Witness == C25_WitnessNoParents \/ C25_WitnessParents \/ C25_WitnessSkip

\* path exists and is not a directory.
MkdirOverNonDir ==
    /\ Resolved("mkdir")
    /\ Lookup(oprun.S0, oprun.action.path).kind \in {"file", "symlink"}

\* C26: when path is a file or a symlink, MkdirAction::resolve gives Overwrite
\* of Rm{path,dir=false}, then the missing-ancestor Mkdirs if parents is
\* true, then Mkdir{path}: the list ends with Mkdir{path}.
C26_MkdirOverwrite ==
    MkdirOverNonDir =>
        /\ oprun.res = "Overwrite"
        /\ oprun.ops = <<RmOp(oprun.action.path, FALSE)>> \o ParentMkdirs
                           \o <<MkdirOp(oprun.action.path)>>

\* When path is a file or a symlink, the Overwrite holds the Rm and nothing
\* else.
C26_OverwriteOnlyRemoves ==
    MkdirOverNonDir =>
        /\ oprun.res = "Overwrite"
        /\ oprun.ops = <<RmOp(oprun.action.path, FALSE)>>

\* The ops of the list ops that are of the kind op.
OpsOfKind(ops, op) == SelectSeq(ops, LAMBDA o : o.op = op)

WriteStartNotFile ==
    LET dest == oprun.action.dest
        kind == Lookup(oprun.S0, dest).kind
    IN  /\ kind \in {"dir", "symlink"} =>
               /\ oprun.ops[1] = RmOp(dest, kind = "dir")
               /\ OpsOfKind(oprun.ops, "Create") = <<>>
        /\ kind = "absent" =>
               /\ oprun.ops[1] = CreateOp(dest)
               /\ OpsOfKind(oprun.ops, "Rm") = <<>>

\* dest is a regular file when the WriteAction is resolved.
WriteOverFile ==
    Resolved("write") /\ Lookup(oprun.S0, oprun.action.dest).kind = "file"

\* C28: the op list of WriteAction::resolve starts with Rm{dest,dir=false}
\* followed by Create{dest} when dest is a regular file, with
\* Rm{dest,dir = dest is a directory} and no Create when dest is a directory
\* or symlink, and with Create{dest} and no Rm when dest is absent.
C28_WriteStart ==
    Resolved("write") =>
        /\ WriteOverFile =>
               /\ oprun.ops[1] = RmOp(oprun.action.dest, FALSE)
               /\ oprun.ops[2] = CreateOp(oprun.action.dest)
        /\ WriteStartNotFile

\* Over a regular file the list is the Rm and the Write, without a Create;
\* the other cases are as claimed.
C28_FileIsNotCreated ==
    Resolved("write") =>
        /\ WriteOverFile =>
               oprun.ops = <<RmOp(oprun.action.dest, FALSE),
                             WriteOp(oprun.action.dest, oprun.action.contents)>>
        /\ WriteStartNotFile

\* A WriteAction has been resolved on a filesystem where dest is absent.
WriteAbsent ==
    Resolved("write") /\ Lookup(oprun.S0, oprun.action.dest).kind = "absent"

\* Every op of the resolved list has finished and none was undone yet.
ListDone == oprun.todo = <<>> /\ oprun.pc \in {"run", "panicked"}

\* C29: for a WriteAction with dest absent the ops are [Create{dest}, the
\* Mkdirs of the missing parents root-first, Write{dest, contents}], and
\* executing them in that order succeeds and leaves a file at dest holding
\* contents, also when parents of dest are missing.
C29_WriteGeneratedString ==
    WriteAbsent =>
        /\ oprun.ops = <<CreateOp(oprun.action.dest)>>
                           \o MissingAncestorMkdirs(oprun.S0, oprun.action.dest)
                           \o <<WriteOp(oprun.action.dest, oprun.action.contents)>>
        /\ oprun.pc # "failed"
        /\ ListDone => Lookup(tree, oprun.action.dest) = FileNode(oprun.action.contents)

\* With the parent of dest missing, the Create is the first op and it fails,
\* leaving the filesystem as it was.
C29_CreateFailsUnderMissingParent ==
    (WriteAbsent /\ ~symlink_exists(oprun.S0, parent(oprun.action.dest))) =>
        /\ oprun.ops[1] = CreateOp(oprun.action.dest)
        /\ oprun.ops[2] = MkdirOp(parent(oprun.action.dest))
        /\ oprun.step.kind # "none" =>
               /\ oprun.pc = "failed"
               /\ oprun.step.o = CreateOp(oprun.action.dest)
               /\ tree = oprun.S0

\* With the parent of dest a directory, the ops are Create and Write, they
\* succeed, and dest holds contents.
C29_HoldsUnderExistingParent ==
    (WriteAbsent /\ Lookup(oprun.S0, parent(oprun.action.dest)).kind = "dir") =>
        /\ oprun.ops = <<CreateOp(oprun.action.dest),
                         WriteOp(oprun.action.dest, oprun.action.contents)>>
        /\ oprun.pc # "failed"
        /\ ListDone => Lookup(tree, oprun.action.dest) = FileNode(oprun.action.contents)

\* The Create has failed under a missing parent.
C29_Failed ==
    /\ WriteAbsent /\ ~symlink_exists(oprun.S0, parent(oprun.action.dest))
    /\ oprun.pc = "failed"

\* The file has been written under an existing parent.
C29_Written ==
    /\ WriteAbsent /\ ListDone
    /\ Lookup(tree, oprun.action.dest) = FileNode(oprun.action.contents)

\* A Link, Write or Mkdir action has been resolved to an op list.
ResolvedToOps ==
    /\ oprun.pc # "none"
    /\ oprun.from \in {"link", "mkdir", "write"}
    /\ oprun.res \in {"Normal", "Overwrite", "Done"}

\* The state the action declares: dest is a symlink to src, dest is a copy of
\* src, dest is a file holding contents, or path is a directory.
Declared ==
    IF oprun.from = "link"
    THEN IF ~oprun.action.copy
         THEN Lookup(tree, oprun.action.dest) = SymlinkNode(oprun.action.src)
         ELSE IF Lookup(oprun.S0, oprun.action.src).kind = "dir"
         THEN Lookup(tree, oprun.action.dest) = DirNode
         ELSE LET b == Bytes(oprun.S0, oprun.action.src, Cardinality(Path))
              IN  b.ok /\ Lookup(tree, oprun.action.dest) = FileNode(b.s)
    ELSE IF oprun.from = "write"
    THEN Lookup(tree, oprun.action.dest) = FileNode(oprun.action.contents)
    ELSE Lookup(tree, oprun.action.path) = DirNode

\* C30: for every Link, Write or Mkdir action that resolves to an op list on
\* a filesystem S, executing the ops in the resolved order from S succeeds at
\* every op and leaves the declared state.
C30_OpsSucceedInOrder ==
    ResolvedToOps =>
        /\ oprun.pc # "failed"
        /\ ListDone => Declared

\* The deepest ancestor of p that exists on S is a directory.
UnderDirectory(S, p) ==
    \A k \in 1..(Len(p) - 1) :
        Lookup(S, SubSeq(p, 1, k)).kind \in {"dir", "absent"}

\* The actions for which the ops succeed in order and leave the declared
\* state: a link under directories; a Mkdir of an absent path under
\* directories, with parents or with its parent existing; a Write whose
\* dest is not under a missing parent or under a file.
C30_HoldsFor ==
    (ResolvedToOps
        /\ \/ oprun.from = "link" /\ ~oprun.action.copy
              /\ UnderDirectory(oprun.S0, oprun.action.dest)
           \/ oprun.from = "mkdir" /\ oprun.res = "Normal"
              /\ UnderDirectory(oprun.S0, oprun.action.path)
              /\ (oprun.action.parents
                     \/ symlink_exists(oprun.S0, parent(oprun.action.path)))
           \/ oprun.from = "write"
              /\ Lookup(oprun.S0, parent(oprun.action.dest)).kind = "dir") =>
        /\ oprun.pc # "failed"
        /\ ListDone => Declared

\* A Mkdir over a file has run its whole list and there is no directory.
C30_MkdirOverwriteDone ==
    /\ MkdirOverNonDir /\ ListDone /\ oprun.step.kind = "finish"
    /\ Lookup(tree, oprun.action.path) = Absent

\* A link under directories has been made after two Mkdirs.
C30_LinkDone ==
    /\ LinkBranch /\ ListDone /\ Len(oprun.ops) = 3
    /\ Lookup(tree, oprun.action.dest) = SymlinkNode(oprun.action.src)

\* The action has been resolved again after its whole op list ran.
ResolvedAgain == oprun.pc = "resolved_again"

\* The second resolution is Skip(DestExists).
SkipsAgain == oprun.again.res = "Skip" /\ oprun.again.why = "DestExists"

\* C31: idempotence of deployment: for every Link (copy or not), Mkdir or
\* Write action that resolves to an op list, after the ops ran in order,
\* resolving the action again gives Skip(DestExists).
C31_Idempotence ==
    ResolvedAgain => SkipsAgain

\* Idempotence holds of a link whose src is not under dest, of a Mkdir of
\* an absent path, and of a copy of a file whose bytes are valid UTF-8.
C31_IdempotentActions ==
    (ResolvedAgain
        /\ \/ oprun.from = "link" /\ ~oprun.action.copy
              /\ ~Below(oprun.action.dest, oprun.action.src)
           \/ oprun.from = "mkdir" /\ oprun.res = "Normal"
           \/ oprun.from = "link" /\ oprun.action.copy
              /\ Lookup(tree, oprun.action.dest).kind = "file"
              /\ Lookup(tree, oprun.action.dest).content \in String
              /\ ~Below(oprun.action.dest, oprun.action.src)) =>
        SkipsAgain

\* A Write is never skipped the second time either.
C31_WriteAgain ==
    (ResolvedAgain /\ oprun.from = "write") =>
        oprun.again.res = "Done"
        /\ oprun.again.ops = <<RmOp(oprun.action.dest, FALSE),
                               WriteOp(oprun.action.dest, oprun.action.contents)>>

\* A directory that was copied is overwritten the second time.
C31_CopiedDirAgain ==
    (ResolvedAgain /\ oprun.from = "link" /\ oprun.action.copy
        /\ Lookup(tree, oprun.action.dest).kind = "dir"
        /\ symlink_exists(tree, oprun.action.src)) =>
        oprun.again.res = "Overwrite"

\* The number of Action records in the run the live session is to undo.
RunLength == Len(SessionRun(session, base))

\* C33: driving the iterator of rollback() or rollback_last() ends when no
\* append fails: on a run of k Action records it returns Some k times and
\* then None, and by that None it has appended k + 1 records when k >= 1 and
\* none when k = 0.  (A session depends on the records alone, and every
\* record list is reached by appends that do not fail.)
C33_RollbackTerminates ==
    /\ []((failures = 0 /\ AtFirstNone) =>
            /\ Len(yielded) = RunLength
            /\ Len(records) - Len(base)
                  = IF RunLength >= 1 THEN RunLength + 1 ELSE 0)
    /\ [][(failures = 0 /\ session # "idle" /\ nones = 0
            /\ call' = "next" /\ failures' = 0)
          => (ret'.kind = "None" <=> Len(yielded) = RunLength)]_vars

C33_WitnessRun ==
    /\ AtFirstNone /\ failures = 0 /\ session = "rollback_last"
    /\ base = <<BACKWARD, FORWARD, COMMIT>>
    /\ Len(yielded) = 2 /\ Len(records) = Len(base) + 3

C33_WitnessEmpty ==
    /\ AtFirstNone /\ failures = 0 /\ session = "rollback_last"
    /\ base = <<FORWARD, COMMIT, COMMIT>>
    /\ yielded = <<>> /\ records = base

C33_Witness == C33_WitnessRun \/ C33_WitnessEmpty

\* C34: when a rollback() session has reached its first None and no append
\* has failed, the journal is empty or ends with Commit; the first next() of
\* a rollback() session made right after it returns None and appends
\* nothing.
C34_RollbackLeavesCommitted ==
    /\ []((failures = 0 /\ session = "rollback" /\ AtFirstNone)
            => Committed(records))
    /\ []((failures = 0 /\ prev.valid /\ prev.mode = "rollback"
            /\ session = "rollback")
            => Committed(base))
    /\ [][(failures = 0 /\ prev.valid /\ prev.mode = "rollback"
            /\ session = "rollback" /\ call = "rollback" /\ call' = "next")
          => (ret' = RetNone /\ records' = records /\ writer' = writer
              /\ lastAppend' = "none")]_vars

C34_Witness ==
    /\ failures = 0 /\ prev.valid /\ prev.mode = "rollback" /\ prev.nyield = 2
    /\ session = "rollback" /\ call = "next" /\ ret = RetNone
    /\ records = <<FORWARD, FORWARD, BACKWARD, BACKWARD, COMMIT>>
    /\ base = records /\ yielded = <<>>

\* The record the next() that has just returned Some(Err) failed to append:
\* the iterator stands one past it.
FailedRecord == next_match([iter EXCEPT !.idx = iter.idx - 1], records)

\* C35: an append that fails inside next() loses no record: the next() after
\* a Some(Err), the writer working again, resumes with the record whose
\* append failed, so at the first None every Action of the run has had its
\* inverse yielded and appended once.
C35_FailedAppendLosesNoRecord ==
    AtFirstNone =>
        /\ yielded = InverseData(SessionRun(session, base))
        /\ records = base \o ActionsOf(yielded)
                \o (IF RunLength >= 1 THEN <<COMMIT>> ELSE <<>>)

\* The next() after a Some(Err) appends and returns the record whose append
\* failed.
C35_RetryResumes ==
    [][(session # "idle" /\ call = "next" /\ ret = RetErr
            /\ call' = "next" /\ lastAppend' = "ok")
          => /\ records' = Append(records, FailedRecord.record)
             /\ ret' = IF FailedRecord.some
                       THEN RetOk(FailedRecord.record.data) ELSE RetNone]_vars

\* What the code does: the next() after a Some(Err) goes on from the record
\* before the one whose append failed, so the inverse that failed is never
\* yielded.
C35_RetrySkipsRecord ==
    [][(session # "idle" /\ call = "next" /\ ret = RetErr
            /\ call' = "next" /\ vars' # vars)
          => LET m == next_match(iter, records) IN
             /\ m.early => (ret' = RetNone /\ records' = records)
             /\ (~m.early /\ lastAppend' = "ok")
                    => records' = Append(records, m.record)]_vars

\* A session on the run Forward, Backward whose first append failed has
\* reached its None having undone the Forward alone.
C35_RecordLost ==
    /\ AtFirstNone /\ session = "rollback" /\ failures = 1
    /\ base = <<FORWARD, BACKWARD>>
    /\ yielded = <<"Backward">>
    /\ records = <<FORWARD, BACKWARD, BACKWARD, COMMIT>>

\* The Action variant a directive stands for.
VariantOf(drct) ==
    CASE drct.kind = "Regular" -> "Link"
      [] drct.kind = "Templated" -> drct.typ
      [] drct.kind = "Tree" -> "Tree"
      [] drct.kind = "Generated" ->
            IF drct.typ \in {"Empty", "String"} THEN "Write" ELSE drct.typ
      [] drct.kind = "Dir" -> "Mkdir"
      [] drct.kind = "Cmd" -> "Command"
      [] drct.kind = "Fun" -> "Function"

Variants(actions) == [i \in 1..Len(actions) |-> actions[i].variant]

\* C32: the stream of PackageData::action_iter has, after n calls of next()
\* that returned Some, yielded the action variants of the first n directives
\* in their order; a call returns None exactly when every directive has been
\* yielded for, and each call that returns Some takes one directive; no call
\* changes the PackageData, and a second stream made from it has at its None
\* yielded the same variants as the first.
C32_ActionIterInOrder ==
    /\ [](aiter.pc = "live" =>
            /\ Len(aiter.out) = aiter.it.directives
            /\ Len(aiter.out) <= Len(pkg.directives)
            /\ \A i \in 1..Len(aiter.out) :
                  aiter.out[i].variant = VariantOf(pkg.directives[i])
            /\ aiter.nones >= 1 => Len(aiter.out) = Len(pkg.directives)
            /\ (aiter.pass = 2 /\ aiter.nones >= 1)
                  => Variants(aiter.out) = Variants(aiter.first))
    /\ [][(aiter.pc = "live" /\ aiter' # aiter /\ aiter'.ret # "new") =>
            /\ pkg' = pkg
            /\ aiter'.ret \in {"Some", "None"}
            /\ aiter'.ret = "None" <=> aiter.it.directives = Len(pkg.directives)
            /\ aiter'.ret = "Some" =>
                  /\ aiter'.it.directives = aiter.it.directives + 1
                  /\ Len(aiter'.out) = Len(aiter.out) + 1]_vars

C32_Witness ==
    /\ aiter.pc = "live" /\ aiter.pass = 2 /\ aiter.nones = 1
    /\ Variants(aiter.out) = <<"Tree", "Function">>
    /\ aiter.first # aiter.out

\* `path` joined against `root` and cleaned: an absolute path stands for
\* itself, a relative one is put after the root.
JoinedAgainst(root, path) ==
    fse_clean(IF path.abs THEN path ELSE PathBuf(root.abs, root.comps \o path.comps))

\* An absolute path without "." and ".." components.
AbsoluteNormalized(p) ==
    p.abs /\ \A i \in 1..Len(p.comps) : p.comps[i] \notin {".", ".."}

\* C36: the action ActionIter yields for a Regular directive is a Link whose
\* src is the directive's src joined against the package root, whose dest is
\* the directive's dest, or its src when it has no dest, joined against the
\* destination root, whose copy is true exactly for link_type Copy and whose
\* optional is the directive's; both paths are absolute and normalized.  The
\* action for a Tree directive without dest has the destination root itself
\* as dest.
C36_RegularBecomesLink ==
    aiter.pc = "live" =>
        \A i \in 1..Len(aiter.out) :
            LET d == pkg.directives[i]
                a == aiter.out[i]
            IN  /\ d.kind = "Regular" =>
                    /\ a.variant = "Link"
                    /\ a.src = JoinedAgainst(pkg.path, d.src)
                    /\ a.dest = JoinedAgainst(aiter.it.dest,
                                              IF d.dest = NoDest THEN d.src ELSE d.dest)
                    /\ a.copy <=> d.link_type = "Copy"
                    /\ a.optional = d.optional
                    /\ AbsoluteNormalized(a.src) /\ AbsoluteNormalized(a.dest)
                /\ (d.kind = "Tree" /\ d.dest = NoDest) =>
                    /\ a.variant = "Tree"
                    /\ a.dest = aiter.it.dest

C36_Witness ==
    /\ aiter.pc = "live" /\ Len(aiter.out) = 2
    /\ aiter.it.dest = PathBuf(TRUE, <<"d", ".", "..", "h">>)
    /\ aiter.out[1] = Action_Link(PathBuf(TRUE, <<"p", "a">>),
                                  PathBuf(TRUE, <<"h", "a">>), FALSE, FALSE)
    /\ aiter.out[2].variant = "Tree"
    /\ aiter.out[2].dest = PathBuf(TRUE, <<"d", ".", "..", "h">>)

\* A Link whose src is outside the package root and whose dest is outside
\* the destination root: the directive's src is absolute and it has no dest.
C36_AbsoluteSrc ==
    /\ aiter.pc = "live" /\ Len(aiter.out) >= 1
    /\ pkg.directives[1] = RegularFile(AbsE, NoDest, "Copy", FALSE)
    /\ aiter.out[1] = Action_Link(AbsE, AbsE, TRUE, FALSE)

\* The directive converts to one item; the others convert to none: a tree,
\* and an optional file or template whose src does not exist.
YieldsOne(d) ==
    \/ d.kind \in {"Regular", "Templated"}
        /\ ~(d.optional /\ JoinedAgainst(pkg.path, d.src) \notin disk.exists)
    \/ d.kind = "Generated"

\* The directives the stream has popped so far.
Consumed == SubSeq(pkg.directives, 1, Len(pkg.directives) - Len(piter.it.directives))

\* The item is one that the directive converts to.
ItemOf(item, d) ==
    CASE d.kind = "Regular" ->
            /\ item.ok /\ item.action.variant = "LinkFile"
            /\ item.action.src = JoinedAgainst(pkg.path, d.src)
      [] d.kind = "Templated" ->
            ~item.ok \/ (item.action.variant = "WriteFile"
                         /\ item.action.dest = JoinedAgainst(piter.it.dest, d.dest))
      [] d.kind = "Generated" ->
            /\ item.ok /\ item.action.variant = "WriteFile"
            /\ item.action.contents = d.contents
      [] OTHER -> FALSE

\* C37: what PackageIter has yielded is, in directive order, the items of
\* the directives it has popped, a directive that converts to no item (an
\* optional file whose src is missing, a tree) adding nothing; it returns
\* None only when every directive has been popped, so with all the items of
\* the package yielded.
C37_PackageIterConcatenates ==
    piter.pc = "live" =>
        LET yielding == SelectSeq(Consumed, YieldsOne)
            all == SelectSeq(pkg.directives, YieldsOne)
        IN  /\ Len(piter.out) + Len(piter.it.next) = Len(yielding)
            /\ \A i \in 1..Len(piter.out) : ItemOf(piter.out[i], yielding[i])
            /\ piter.nones >= 1 =>
                /\ piter.it.directives = <<>>
                /\ piter.it.next = <<>>
                /\ Len(piter.out) = Len(all)

\* A tree comes before a file that is linked; the stream has yielded the
\* link and then None.
C37_WitnessTree ==
    /\ piter.pc = "live" /\ piter.nones = 1
    /\ pkg.directives = <<TreeFile(RelA, NoDest, "Link", FALSE),
                          RegularFile(RelA, NoDest, "Link", FALSE)>>
    /\ Len(piter.out) = 1
    /\ piter.out[1].action.variant = "LinkFile"

\* The same for an optional file whose src is missing.
C37_WitnessOptional ==
    /\ piter.pc = "live" /\ piter.nones = 1 /\ disk.exists = {}
    /\ pkg.directives = <<RegularFile(RelA, AbsE, "Link", TRUE),
                          GeneratedFile(RelDotB, "String", "x")>>
    /\ Len(piter.out) = 1
    /\ piter.out[1].action.variant = "WriteFile"

C37_Witness == C37_WitnessTree \/ C37_WitnessOptional

\* next() has panicked in a todo!(): the directive is a hook or a Yaml,
\* Toml or Json file.
C37_Panicked ==
    /\ piter.pc = "panicked"
    /\ Len(piter.out) = 1
    /\ pkg.directives[2].kind \in {"Cmd", "Fun"}

\* eval() has returned: Ok, with the loader in its Evaled typestate, or the
\* Lua error.
EvalReturned == loader.state \in {"evaled", "finished", "lua_error"}

\* C38: SpecLoaderRead::eval leaves the working directory of the process as
\* it found it: when eval has returned, with Ok or with the Lua error of the
\* package script, the working directory is the one from before the call.
C38_EvalRestoresCwd ==
    EvalReturned => cwd = loader.cwd0

\* eval() that returned Ok has restored the working directory.
C38_OkRestoresCwd ==
    loader.state \in {"evaled", "finished"} => cwd = loader.cwd0

\* eval() that returned the Lua error has left the process in the package
\* root.
C38_ErrorLeavesPackageRoot ==
    loader.state = "lua_error" => cwd = loader.path

\* The script raised and the process is no longer where it was.
C38_CwdMoved ==
    /\ loader.state = "lua_error"
    /\ loader.cwd0 = WorkDir /\ cwd = PackageRoot

====
